---- MODULE Spec2Model ----
(***************************************************************************)
(* Model of the job scraper's fallback orchestrator (app.run_job_scraper   *)
(* and the tiers it calls) and of the browser tier's filter engine         *)
(* (BrowserExecutor._apply_filters_to_jobs), with its four predicates, the *)
(* JSON-LD extraction and the GPT enhancement of JobExtractor, the browser *)
(* sessions of BrowserExecutor, sample_jobs.get_sample_jobs, the           *)
(* extraction strategies of JobExtractor and of the browser tier,          *)
(* clean_text, _make_request and the LinkedIn pagination loop.  Each       *)
(* component has its own variables and its own specification; the          *)
(* actions of one component leave the variables of the others unchanged.   *)
(*                                                                         *)
(* Python values are encoded as TLA+ strings: a str is itself, None and a  *)
(* truthy non-str value are the reserved strings PyNone and PyNum.  A dict *)
(* is a record; a key the dict lacks is a field the record lacks.          *)
(***************************************************************************)
EXTENDS Integers, Sequences, FiniteSets, TLC

VARIABLES
    \* ---- filter engine: one call of _apply_filters_to_jobs -------------
    fpc,            \* position in _apply_filters_to_jobs
    fjobs,          \* argument jobs
    fplan,          \* argument plan
    filtered_jobs,  \* local filtered_jobs
    fidx,           \* index of the next filter phrase of the loop
    fbefore,        \* filtered_jobs before the last loop iteration (history)
    fret,           \* what the call returned: [raised, jobs]
    fprev,          \* what the previous call returned (history)
    fcalls          \* number of completed calls

fvars == <<fpc, fjobs, fplan, filtered_jobs, fidx, fbefore, fret, fprev, fcalls>>

VARIABLES
    \* ---- app.run_job_scraper and the tiers it calls ---------------------
    pc,             \* position in run_job_scraper, or in the tier it called
    search_term,    \* argument search_term
    location,       \* argument location
    site,           \* argument site
    days,           \* argument days, 0 for None
    is_remote,      \* argument is_remote
    max_jobs,       \* argument max_jobs
    plan,           \* local plan
    jobs,           \* local jobs of run_job_scraper
    tjobs,          \* local jobs of the scraper method that is running
    tstep,          \* its loop counter: URL index, or start_val
    trace,          \* the tiers invoked so far and how each ended (history)
    escaped         \* an exception left run_job_scraper

ovars == <<pc, search_term, location, site, days, is_remote, max_jobs, plan,
           jobs, tjobs, tstep, trace, escaped>>

VARIABLES
    \* ---- JobExtractor.enhance_jobs_with_gpt ------------------------------
    epc,            \* position in the function: "call", "loop", "done"
    openai_client,  \* the module's client is set
    ejobs,          \* argument jobs; the loop changes its dicts in place
    enhanced_jobs,  \* local enhanced_jobs
    eret,           \* the list the function returned
    eorig,          \* the argument as it was when the call began (history)
    ereplies        \* how the collaborator answered for each job (history)

evars == <<epc, openai_client, ejobs, enhanced_jobs, eret, eorig, ereplies>>

VARIABLES
    \* ---- BrowserExecutor: the two browser sessions -----------------------
    bpc,            \* position in _execute_plan_async or in execute_plan
    bplan,          \* argument plan
    bbrowser,       \* self.browser: "None", "open", "closed", "close_raised"
    bcontext,       \* self.context, likewise
    bpage,          \* self.page, likewise
    bdriver,        \* local driver of execute_plan, likewise
    bruns           \* number of calls that have returned

bvars == <<bpc, bplan, bbrowser, bcontext, bpage, bdriver, bruns>>

VARIABLES
    \* ---- sample_jobs.get_sample_jobs called on its own -------------------
    spc,            \* "call" before the call, "done" after it
    sterm,          \* argument search_term
    sloc,           \* argument location
    ssite,          \* argument site
    scount,         \* argument count
    sret            \* how the call ended: [raised, jobs]

svars == <<spc, sterm, sloc, ssite, scount, sret>>

VARIABLES
    \* ---- JobExtractor: the extraction of the records of one document -----
    dpc,            \* "page", "html", "cards" before a strategy; "done"
    dentry,         \* the method called: "page" or "html"
    dscripts,       \* the ld+json script blocks of the document, in order
    dcards,         \* the elements the job_card selector matches, in order
    dsite,          \* argument site
    dmax,           \* argument max_jobs
    dqfail,         \* page.query_selector_all raises
    dselectors,     \* site_details['selectors']: "none", "nocard" or "card"
    dstructured,    \* what extract_structured_data returned
    djobs,          \* the list returned
    dtrace          \* the strategies run so far, in order

dvars == <<dpc, dentry, dscripts, dcards, dsite, dmax, dqfail, dselectors,
           dstructured, djobs, dtrace>>

VARIABLES
    \* ---- _make_request of the two HTTP scrapers --------------------------
    rpc,            \* "loop" while the call runs, "done" after it
    rscraper,       \* the class of self: "ultra" or "linkedin"
    rmax,           \* local max_retries
    rattempts,      \* number of requests.get calls made
    rlog,           \* the outcomes of the requests.get calls, in order
    rret            \* "pending"; "response", "None" or "raised" at the end

rvars == <<rpc, rscraper, rmax, rattempts, rlog, rret>>

VARIABLES
    \* ---- JobExtractor.clean_text called on its own -----------------------
    cpc,            \* "call", "once" after one call, "twice" after two
    ctext,          \* argument text
    cout,           \* clean_text(text)
    cagain          \* clean_text(clean_text(text))

cvars == <<cpc, ctext, cout, cagain>>

VARIABLES
    \* ---- LinkedInScraper.scrape_linkedin_jobs: the pagination loop -------
    ppc,            \* "enter", "loop", "return"; "done" after the return
    pjobs,          \* local jobs
    pmax,           \* argument max_jobs
    pstart,         \* local start_val
    pfirst,         \* len(jobs) when line 316 is reached
    prequests,      \* number of pagination requests made
    pbroke,         \* a pagination request failed or its page had no card
    pret            \* the list returned

pvars == <<ppc, pjobs, pmax, pstart, pfirst, prequests, pbroke, pret>>

\* the variables of the components other than the filter engine and
\* run_job_scraper
xvars == <<evars, bvars, svars, dvars, rvars, cvars, pvars>>

vars == <<fvars, ovars, xvars>>

----------------------------------------------------------------------------
(* Bounds of the model *)

MaxFilterJobs == 2
MaxFilters == 2
MaxFilterCalls == 2
MaxJobs == 2
MaxBlocks == 2
MaxCards == 2
MaxEnhanceJobs == 2
MaxRuns == 2

\* script blocks and job cards of an extracted document
MaxScripts == 2
MaxPageCards == 2

\* length of the texts given to clean_text
MaxTextLen == 4

\* constants of the program
UltraMaxRetries == 2
LinkedInMaxRetries == 3
PaginationStep == 25
PaginationCap == 1000
DriverCardLimit == 30
DescriptionCut == 200
LinkedInDescriptionCut == 500

----------------------------------------------------------------------------
(* Python values and strings *)

PyNone == "<None>"
PyNum == "<int 12>"

IsStr(v) == v \notin {PyNone, PyNum}

\* bool(v): None and the empty string are falsy
Truthy(v) == v \notin {"", PyNone}

EmptyDict == <<>>

Char(t, i) == IF i >= 1 /\ i <= Len(t) THEN SubSeq(t, i, i) ELSE ""

StartsWithAt(t, i, kw) ==
    /\ i >= 1
    /\ i + Len(kw) - 1 <= Len(t)
    /\ SubSeq(t, i, i + Len(kw) - 1) = kw

\* kw in t
Contains(t, kw) == \E i \in 1..(Len(t) - Len(kw) + 1) : StartsWithAt(t, i, kw)

LowerChar(c) ==
    CASE c = "A" -> "a" [] c = "B" -> "b" [] c = "C" -> "c" [] c = "D" -> "d"
      [] c = "E" -> "e" [] c = "F" -> "f" [] c = "G" -> "g" [] c = "H" -> "h"
      [] c = "I" -> "i" [] c = "J" -> "j" [] c = "K" -> "k" [] c = "L" -> "l"
      [] c = "M" -> "m" [] c = "N" -> "n" [] c = "O" -> "o" [] c = "P" -> "p"
      [] c = "Q" -> "q" [] c = "R" -> "r" [] c = "S" -> "s" [] c = "T" -> "t"
      [] c = "U" -> "u" [] c = "V" -> "v" [] c = "W" -> "w" [] c = "X" -> "x"
      [] c = "Y" -> "y" [] c = "Z" -> "z" [] OTHER -> c

RECURSIVE Lower(_)
\* str.lower()
Lower(s) ==
    IF Len(s) <= 1 THEN LowerChar(s)
    ELSE Lower(SubSeq(s, 1, Len(s) \div 2)) \o Lower(SubSeq(s, Len(s) \div 2 + 1, Len(s)))

IsSpace(c) == c \in {" ", "\t", "\n", "\r"}

IsDigit(c) == c \in {"0", "1", "2", "3", "4", "5", "6", "7", "8", "9"}

DigitVal(c) ==
    CASE c = "0" -> 0 [] c = "1" -> 1 [] c = "2" -> 2 [] c = "3" -> 3
      [] c = "4" -> 4 [] c = "5" -> 5 [] c = "6" -> 6 [] c = "7" -> 7
      [] c = "8" -> 8 [] c = "9" -> 9

RECURSIVE SkipWs(_, _)
\* the position after the run of whitespace that starts at i (regex \s*)
SkipWs(t, i) == IF IsSpace(Char(t, i)) THEN SkipWs(t, i + 1) ELSE i

RECURSIVE DigitsEnd(_, _)
\* the position after the run of digits that starts at i (regex \d+, greedy)
DigitsEnd(t, i) == IF IsDigit(Char(t, i)) THEN DigitsEnd(t, i + 1) ELSE i

RECURSIVE ParseInt(_)
\* int(s) of a string of digits
ParseInt(s) ==
    IF s = "" THEN 0
    ELSE ParseInt(SubSeq(s, 1, Len(s) - 1)) * 10 + DigitVal(Char(s, Len(s)))

RECURSIVE Pow10(_)
Pow10(n) == IF n = 0 THEN 1 ELSE 10 * Pow10(n - 1)

\* the first alternative of a regex alternation that matches at i, "" if none
FirstAlt(t, i, alts) ==
    IF \E k \in 1..Len(alts) : StartsWithAt(t, i, alts[k])
    THEN alts[CHOOSE k \in 1..Len(alts) :
                /\ StartsWithAt(t, i, alts[k])
                /\ \A h \in 1..(k - 1) : ~StartsWithAt(t, i, alts[h])]
    ELSE ""

RECURSIVE IsSubSeq(_, _)
\* a is an order-preserving sub-list of b
IsSubSeq(a, b) ==
    IF a = <<>> THEN TRUE
    ELSE IF b = <<>> THEN FALSE
    ELSE IF Head(a) = Head(b) /\ IsSubSeq(Tail(a), Tail(b)) THEN TRUE
    ELSE IsSubSeq(a, Tail(b))

\* the sequences over S of length at most n
BSeq(S, n) == UNION {[1..k -> S] : k \in 0..n}

SetMax(S) == CHOOSE x \in S : \A y \in S : y <= x

SetMin(S) == CHOOSE x \in S : \A y \in S : x <= y

\* field in job
HasKey(job, field) == field \in DOMAIN job

\* any(term in text for term in terms)
AnyTermIn(text, terms) == \E k \in 1..Len(terms) : Contains(text, terms[k])

\* next((f for f in fields if f in job), None)
FirstKey(job, fields) ==
    IF \E k \in 1..Len(fields) : HasKey(job, fields[k])
    THEN fields[SetMin({k \in 1..Len(fields) : HasKey(job, fields[k])})]
    ELSE PyNone

\* a number n/d; the code's floats are compared as exact fractions
Frac(n, d) == [num |-> n, den |-> d]

FracGeq(a, b) == a.num * b.den >= b.num * a.den

----------------------------------------------------------------------------
(* BrowserExecutor._is_remote_job *)

remote_terms == <<"remote", "work from home", "wfh", "virtual", "telecommute", "anywhere">>

RECURSIVE RemoteScan(_, _)
\* the for loop over the fields, from the first field of the sequence on
RemoteScan(job, fields) ==
    IF fields = <<>> THEN "False"
    ELSE IF HasKey(job, Head(fields)) /\ Truthy(job[Head(fields)])
         THEN IF ~IsStr(job[Head(fields)]) THEN "Raise"
              ELSE IF AnyTermIn(Lower(job[Head(fields)]), remote_terms) THEN "True"
              ELSE RemoteScan(job, Tail(fields))
         ELSE RemoteScan(job, Tail(fields))

_is_remote_job(job) == RemoteScan(job, <<"title", "description", "location">>)

----------------------------------------------------------------------------
(* BrowserExecutor._is_recent_job *)

\* r'(\d+)\s*(hour|day|week|month)s?\s*ago' matched at position i
TimeMatchAt(t, i) ==
    LET e == DigitsEnd(t, i)
        p == SkipWs(t, e)
        u == FirstAlt(t, p, <<"hour", "day", "week", "month">>)
        q == p + Len(u)
        q2 == IF Char(t, q) = "s" THEN q + 1 ELSE q
        r == SkipWs(t, q2)
    IN  [ok |-> e > i /\ u # "" /\ StartsWithAt(t, r, "ago"),
         value |-> ParseInt(SubSeq(t, i, e - 1)),
         unit |-> u]

\* re.search of that pattern: the leftmost match
TimeSearch(t) ==
    LET starts == {i \in 1..Len(t) : TimeMatchAt(t, i).ok}
    IN  IF starts = {} THEN [ok |-> FALSE, value |-> 0, unit |-> ""]
        ELSE TimeMatchAt(t, SetMin(starts))

\* the text test with its last "return True" written as "return False"
RecentByText_ExcludeUnparsed(date_text, hours) ==
    IF Contains(date_text, "just now") \/ Contains(date_text, "today") THEN "True"
    ELSE IF TimeSearch(date_text).ok THEN "True"
    ELSE "False"

RecentByText(date_text, hours) ==
    IF Contains(date_text, "just now") \/ Contains(date_text, "today") THEN "True"
    ELSE IF Contains(date_text, "yesterday") /\ hours >= 24 THEN "True"
    ELSE IF Contains(date_text, "this week") /\ hours >= 168 THEN "True"
    ELSE IF Contains(date_text, "this month") /\ hours >= 720 THEN "True"
    ELSE LET time_match == TimeSearch(date_text)
             value == time_match.value
             unit == time_match.unit
         IN  IF time_match.ok
             THEN IF unit = "hour" /\ value <= hours THEN "True"
                  ELSE IF unit = "day" /\ value * 24 <= hours THEN "True"
                  ELSE IF unit = "week" /\ value * 168 <= hours THEN "True"
                  ELSE IF unit = "month" /\ value * 720 <= hours THEN "True"
                  ELSE "False"
             ELSE "True"

_is_recent_job(job, hours) ==
    LET date_field == FirstKey(job, <<"date_posted", "posted_date", "date">>)
    IN  IF date_field = PyNone THEN "True"
        ELSE IF ~Truthy(job[date_field]) THEN "True"
        ELSE IF ~IsStr(job[date_field]) THEN "Raise"
        ELSE RecentByText(Lower(job[date_field]), hours)

----------------------------------------------------------------------------
(* BrowserExecutor._matches_experience *)

ExperienceTerms(level, with_field_terms) ==
    CASE level = "entry" ->
            IF with_field_terms
            THEN <<"entry", "junior", "fresher", "trainee", "graduate", "0-1", "0-2">>
            ELSE <<"entry", "junior", "fresher", "trainee", "0-1", "0-2">>
      [] level = "mid" -> <<"mid", "intermediate", "associate", "2-5", "3-5">>
      [] level = "senior" ->
            IF with_field_terms
            THEN <<"senior", "lead", "manager", "principal", "head", "5+", "7+">>
            ELSE <<"senior", "lead", "manager", "principal", "5+", "7+">>

RECURSIVE ExperienceScan(_, _, _)
\* the for loop over title, description, experience; its fall-through is
\* the final "return True"
ExperienceScan(job, level, fields) ==
    IF fields = <<>> THEN "True"
    ELSE IF HasKey(job, Head(fields)) /\ Truthy(job[Head(fields)])
         THEN IF ~IsStr(job[Head(fields)]) THEN "Raise"
              ELSE IF AnyTermIn(Lower(job[Head(fields)]), ExperienceTerms(level, TRUE))
                   THEN "True"
              ELSE ExperienceScan(job, level, Tail(fields))
         ELSE ExperienceScan(job, level, Tail(fields))

_matches_experience(job, level) ==
    IF HasKey(job, "experience_level") /\ Truthy(job["experience_level"])
    THEN IF ~IsStr(job["experience_level"]) THEN "Raise"
         ELSE IF AnyTermIn(Lower(job["experience_level"]), ExperienceTerms(level, FALSE))
              THEN "True"
         ELSE ExperienceScan(job, level, <<"title", "description", "experience">>)
    ELSE ExperienceScan(job, level, <<"title", "description", "experience">>)

----------------------------------------------------------------------------
(* BrowserExecutor._meets_salary_requirement *)

\* the position after the number \d+(?:\.\d+)? that starts at i, greedy
NumberEnd(t, i) ==
    LET j == DigitsEnd(t, i)
    IN  IF j = i THEN i
        ELSE IF Char(t, j) = "." /\ DigitsEnd(t, j + 1) > j + 1
             THEN DigitsEnd(t, j + 1)
        ELSE j

\* the ends the regex engine can give a number that starts at i
NumberEnds(t, i) == {e \in (i + 1)..NumberEnd(t, i) : IsDigit(Char(t, e - 1))}

salary_units == <<"lpa", "l", "lakh", "lakhs", "k", "cr", "crore">>

\* \s*-?\s*(\d+(?:\.\d+)?)?\s*(lpa|l|lakh|lakhs|k|cr|crore) matched from e1:
\* the unit of the first way the engine finds, "" if there is none
SalaryRest(t, e1) ==
    LET p == SkipWs(t, e1)
        p2 == IF Char(t, p) = "-" THEN p + 1 ELSE p
        q == SkipWs(t, p2)
        ends == {e \in NumberEnds(t, q) \cup {q} :
                    FirstAlt(t, SkipWs(t, e), salary_units) # ""}
    IN  IF ends = {} THEN ""
        ELSE FirstAlt(t, SkipWs(t, SetMax(ends)), salary_units)

\* the job-side salary pattern matched at position i
SalaryMatchAt(t, i) ==
    LET ends == {e \in NumberEnds(t, i) : SalaryRest(t, e) # ""}
    IN  IF ends = {} THEN [ok |-> FALSE, group1 |-> "", unit |-> ""]
        ELSE [ok |-> TRUE,
              group1 |-> SubSeq(t, i, SetMax(ends) - 1),
              unit |-> SalaryRest(t, SetMax(ends))]

\* re.search of the job-side salary pattern: the leftmost match
SalarySearch(t) ==
    LET starts == {i \in 1..Len(t) : SalaryMatchAt(t, i).ok}
    IN  IF starts = {} THEN [ok |-> FALSE, group1 |-> "", unit |-> ""]
        ELSE SalaryMatchAt(t, SetMin(starts))

\* float(s) for s matching \d+(?:\.\d+)?
ParseFloat(s) ==
    LET dots == {i \in 1..Len(s) : Char(s, i) = "."}
    IN  IF dots = {} THEN Frac(ParseInt(s), 1)
        ELSE LET d == SetMin(dots)
             IN  Frac(ParseInt(SubSeq(s, 1, d - 1) \o SubSeq(s, d + 1, Len(s))),
                      Pow10(Len(s) - d))

\* the conversion with the thousands taken for tenths of a lakh
ToLakhs_Tenths(value, unit) ==
    IF unit \in {"k", "thousand"} THEN Frac(value.num, value.den * 10)
    ELSE IF unit \in {"cr", "crore"} THEN Frac(value.num * 100, value.den)
    ELSE value

\* the conversion to lakhs both sides of the comparison use
ToLakhs(value, unit) ==
    IF unit \in {"k", "thousand"} THEN Frac(value.num, value.den * 100)
    ELSE IF unit \in {"cr", "crore"} THEN Frac(value.num * 100, value.den)
    ELSE value

_meets_salary_requirement(job, min_lakhs) ==
    LET salary_field == FirstKey(job, <<"salary", "salary_range">>)
    IN  IF salary_field = PyNone THEN "True"
        ELSE IF ~Truthy(job[salary_field]) THEN "True"
        ELSE IF ~IsStr(job[salary_field]) THEN "Raise"
        ELSE LET salary_match == SalarySearch(Lower(job[salary_field]))
                 min_value == ToLakhs(ParseFloat(salary_match.group1),
                                      salary_match.unit)
             IN  IF salary_match.ok
                 THEN IF FracGeq(min_value, min_lakhs) THEN "True" ELSE "False"
                 ELSE "True"

----------------------------------------------------------------------------
(* BrowserExecutor._apply_filters_to_jobs *)

\* r'(salary|compensation)\s*(>|above|over|more than)\s*(\d+)\s*(k|l|lpa|lakh|cr|crore)'
\* matched at position i
FilterSalaryAt(t, i) ==
    LET a == FirstAlt(t, i, <<"salary", "compensation">>)
        p == SkipWs(t, i + Len(a))
        c == FirstAlt(t, p, <<">", "above", "over", "more than">>)
        q == SkipWs(t, p + Len(c))
        j == DigitsEnd(t, q)
        r == SkipWs(t, j)
        u == FirstAlt(t, r, <<"k", "l", "lpa", "lakh", "cr", "crore">>)
    IN  [ok |-> a # "" /\ c # "" /\ j > q /\ u # "",
         group3 |-> SubSeq(t, q, j - 1),
         group4 |-> u]

\* re.search of the phrase-side salary pattern: the leftmost match
FilterSalarySearch(t) ==
    LET starts == {i \in 1..Len(t) : FilterSalaryAt(t, i).ok}
    IN  IF starts = {} THEN [ok |-> FALSE, group3 |-> "", group4 |-> ""]
        ELSE FilterSalaryAt(t, SetMin(starts))

\* the recency branch with its last "elif" written as "else"
RecencyHours_Else(filter_lower) ==
    IF Contains(filter_lower, "last 24 hours") \/ Contains(filter_lower, "today") THEN 24
    ELSE IF Contains(filter_lower, "last 3 days") THEN 72
    ELSE IF Contains(filter_lower, "last 7 days") \/ Contains(filter_lower, "week") THEN 168
    ELSE 720

\* the recency branch passing the days of the phrase instead of the hours
RecencyHours_InDays(filter_lower) ==
    IF Contains(filter_lower, "last 24 hours") \/ Contains(filter_lower, "today") THEN 1
    ELSE IF Contains(filter_lower, "last 3 days") THEN 3
    ELSE IF Contains(filter_lower, "last 7 days") \/ Contains(filter_lower, "week") THEN 7
    ELSE IF Contains(filter_lower, "last 30 days") \/ Contains(filter_lower, "month") THEN 30
    ELSE 0

\* the hours of the recency branch a phrase selects, 0 when it selects none
RecencyHours(filter_lower) ==
    IF Contains(filter_lower, "last 24 hours") \/ Contains(filter_lower, "today") THEN 24
    ELSE IF Contains(filter_lower, "last 3 days") THEN 72
    ELSE IF Contains(filter_lower, "last 7 days") \/ Contains(filter_lower, "week") THEN 168
    ELSE IF Contains(filter_lower, "last 30 days") \/ Contains(filter_lower, "month") THEN 720
    ELSE 0

\* the level of the experience branch a phrase selects, "" when it selects none
ExperienceLevel(filter_lower) ==
    IF Contains(filter_lower, "entry") \/ Contains(filter_lower, "junior") THEN "entry"
    ELSE IF Contains(filter_lower, "mid") \/ Contains(filter_lower, "intermediate") THEN "mid"
    ELSE IF Contains(filter_lower, "senior") \/ Contains(filter_lower, "experienced") THEN "senior"
    ELSE ""

RECURSIVE RemoveWhileIterating(_, _)
\* "for job in items: if not pred(job): items.remove(job)": the element
\* that follows a removed one is skipped
RemoveWhileIterating(items, outcomes) ==
    IF items = <<>> THEN <<>>
    ELSE IF outcomes[1] = "True"
         THEN <<items[1]>> \o RemoveWhileIterating(Tail(items), Tail(outcomes))
    ELSE IF Len(items) = 1 THEN <<>>
    ELSE <<items[2]>> \o RemoveWhileIterating(SubSeq(items, 3, Len(items)),
                                              SubSeq(outcomes, 3, Len(items)))

\* the filtering statement written as an in-place removal
ListComp_InPlace(items, outcomes) ==
    [raised |-> \E i \in 1..Len(items) : outcomes[i] = "Raise",
     jobs |-> RemoveWhileIterating(items, outcomes)]

\* [job for job in jobs if pred(job)], given outcomes[i] = pred(jobs[i]):
\* a predicate that raises ends the comprehension with the exception
ListComp(items, outcomes) ==
    [raised |-> \E i \in 1..Len(items) : outcomes[i] = "Raise",
     jobs |-> LET kept == {i \in 1..Len(items) : outcomes[i] = "True"}
                  F[n \in 0..Len(items)] ==
                      IF n = 0 THEN <<>>
                      ELSE IF n \in kept THEN Append(F[n - 1], items[n])
                      ELSE F[n - 1]
              IN  F[Len(items)]]

\* lines 330-331: the remote statement; r is the list so far, or the
\* exception an earlier statement raised
RemotePass(r, filter_lower) ==
    IF r.raised \/ ~AnyTermIn(filter_lower, <<"remote", "work from home", "wfh">>)
    THEN r
    ELSE ListComp(r.jobs, [i \in 1..Len(r.jobs) |-> _is_remote_job(r.jobs[i])])

\* lines 334-341, one branch of them: the recency statement for hours
RecencyPass(r, hours) ==
    IF r.raised \/ hours = 0 THEN r
    ELSE ListComp(r.jobs, [i \in 1..Len(r.jobs) |-> _is_recent_job(r.jobs[i], hours)])

\* lines 344-349, one branch of them: the experience statement for level
ExperiencePass(r, level) ==
    IF r.raised \/ level = "" THEN r
    ELSE ListComp(r.jobs,
                  [i \in 1..Len(r.jobs) |-> _matches_experience(r.jobs[i], level)])

\* lines 353-362: the salary statement, the amount converted to lakhs
SalaryPass(r, salary_match) ==
    IF r.raised \/ ~salary_match.ok THEN r
    ELSE ListComp(r.jobs,
                  [i \in 1..Len(r.jobs) |->
                      _meets_salary_requirement(r.jobs[i],
                          ToLakhs(Frac(ParseInt(salary_match.group3), 1),
                                  salary_match.group4))])

\* lines 327-362: the four statements in turn on the lowered phrase
FilterPasses(filtered, filter_lower) ==
    SalaryPass(
        ExperiencePass(
            RecencyPass(
                RemotePass([raised |-> FALSE, jobs |-> filtered], filter_lower),
                RecencyHours(filter_lower)),
            ExperienceLevel(filter_lower)),
        FilterSalarySearch(filter_lower))

\* the body of "for filter_item in filters": a falsy phrase is skipped, a
\* phrase that is no str has no lower()
LoopBody(filtered, filter_item) ==
    IF ~Truthy(filter_item) THEN [raised |-> FALSE, jobs |-> filtered]
    ELSE IF ~IsStr(filter_item) THEN [raised |-> TRUE, jobs |-> filtered]
    ELSE FilterPasses(filtered, Lower(filter_item))

\* plan.get('filters', [])
PlanFilters(p) == IF HasKey(p, "filters") THEN p["filters"] ELSE <<>>

----------------------------------------------------------------------------
(* The inputs of the filter engine *)

FilterJobs ==
    { [title |-> "Remote Dev", date |-> "2 days ago", salary |-> "10-15 LPA"],
      [title |-> "Senior Dev", location |-> "Pune", date |-> "2 weeks ago",
       salary |-> "20 LPA"],
      [title |-> "Dev", location |-> "Anywhere", posted_date |-> "Today"],
      [title |-> "Analyst", location |-> PyNum, date |-> "3 months ago",
       salary |-> "900k"] }

FilterPhrases ==
    {"Remote", "Last 24 hours", "Last 7 days", "Senior",
     "salary above 12 LPA", "2-5 years", ""}

FilterPlans ==
    {[filters |-> fs] : fs \in BSeq(FilterPhrases, MaxFilters)}
        \cup {EmptyDict, [site |-> "https://www.foundit.in"]}

NoReturn == [raised |-> FALSE, jobs |-> <<>>]

\* run_job_scraper is not running
OrchIdle ==
    /\ pc = "idle"
    /\ search_term = ""
    /\ location = ""
    /\ site = ""
    /\ days = 0
    /\ is_remote = FALSE
    /\ max_jobs = 0
    /\ plan = EmptyDict
    /\ jobs = <<>>
    /\ tjobs = <<>>
    /\ tstep = 0
    /\ trace = <<>>
    /\ escaped = FALSE

\* _apply_filters_to_jobs is not running
FilterIdle ==
    /\ fpc = "idle"
    /\ fjobs = <<>>
    /\ fplan = EmptyDict
    /\ filtered_jobs = <<>>
    /\ fidx = 0
    /\ fbefore = <<>>
    /\ fret = NoReturn
    /\ fprev = NoReturn
    /\ fcalls = 0

\* enhance_jobs_with_gpt is not running
EnhanceIdle ==
    /\ epc = "idle"
    /\ openai_client = FALSE
    /\ ejobs = <<>>
    /\ enhanced_jobs = <<>>
    /\ eret = <<>>
    /\ eorig = <<>>
    /\ ereplies = <<>>

\* no method of the browser executor is running; lines 47-49 of __init__
BrowserIdle ==
    /\ bpc = "idle"
    /\ bplan = EmptyDict
    /\ bbrowser = "None"
    /\ bcontext = "None"
    /\ bpage = "None"
    /\ bdriver = "None"
    /\ bruns = 0

\* get_sample_jobs is not being called on its own
SampleIdle ==
    /\ spc = "idle"
    /\ sterm = ""
    /\ sloc = ""
    /\ ssite = ""
    /\ scount = 0
    /\ sret = NoReturn

\* no method of the extractor is running
ExtractIdle ==
    /\ dpc = "idle"
    /\ dentry = ""
    /\ dscripts = <<>>
    /\ dcards = <<>>
    /\ dsite = PyNone
    /\ dmax = 0
    /\ dqfail = FALSE
    /\ dselectors = ""
    /\ dstructured = <<>>
    /\ djobs = <<>>
    /\ dtrace = <<>>

\* _make_request is not being called on its own
RequestIdle ==
    /\ rpc = "idle"
    /\ rscraper = ""
    /\ rmax = 0
    /\ rattempts = 0
    /\ rlog = <<>>
    /\ rret = "pending"

\* clean_text is not being called on its own
CleanIdle ==
    /\ cpc = "idle"
    /\ ctext = ""
    /\ cout = ""
    /\ cagain = ""

\* the pagination loop is not running on its own
PagesIdle ==
    /\ ppc = "idle"
    /\ pjobs = <<>>
    /\ pmax = 0
    /\ pstart = 0
    /\ pfirst = 0
    /\ prequests = 0
    /\ pbroke = FALSE
    /\ pret = <<>>

\* none of the other components is running
ExtraIdle ==
    /\ EnhanceIdle /\ BrowserIdle /\ SampleIdle /\ ExtractIdle
    /\ RequestIdle /\ CleanIdle /\ PagesIdle

FilterInit ==
    /\ OrchIdle
    /\ ExtraIdle
    /\ fpc = "call"
    /\ fjobs \in BSeq(FilterJobs, MaxFilterJobs)
    /\ fplan \in FilterPlans
    /\ filtered_jobs = <<>>
    /\ fidx = 0
    /\ fbefore = <<>>
    /\ fret = NoReturn
    /\ fprev = NoReturn
    /\ fcalls = 0

\* lines 311-318: the early returns, the copy and the read of the phrases
FilterEnter ==
    /\ fpc = "call"
    /\ IF fjobs = <<>> \/ fplan = EmptyDict
       THEN /\ fret' = [raised |-> FALSE, jobs |-> fjobs]
            /\ fpc' = "done"
            /\ fcalls' = fcalls + 1
            /\ UNCHANGED <<filtered_jobs, fidx>>
       ELSE /\ filtered_jobs' = fjobs
            /\ IF PlanFilters(fplan) = <<>>
               THEN /\ fret' = [raised |-> FALSE, jobs |-> fjobs]
                    /\ fpc' = "done"
                    /\ fcalls' = fcalls + 1
                    /\ UNCHANGED fidx
               ELSE /\ fpc' = "loop"
                    /\ fidx' = 1
                    /\ UNCHANGED <<fret, fcalls>>
    /\ fbefore' = fjobs
    /\ UNCHANGED <<fjobs, fplan, fprev>>
    /\ UNCHANGED <<ovars, xvars>>

\* the loop body filtering the argument jobs instead of filtered_jobs
FilterIterate_FromInput ==
    /\ fpc = "loop"
    /\ fidx <= Len(PlanFilters(fplan))
    /\ \E r \in {LoopBody(fjobs, PlanFilters(fplan)[fidx])} :
           IF r.raised
           THEN /\ fret' = [raised |-> TRUE, jobs |-> <<>>]
                /\ fpc' = "done"
                /\ fcalls' = fcalls + 1
                /\ UNCHANGED <<filtered_jobs, fbefore, fidx>>
           ELSE /\ filtered_jobs' = r.jobs
                /\ fbefore' = filtered_jobs
                /\ fidx' = fidx + 1
                /\ UNCHANGED <<fret, fpc, fcalls>>
    /\ UNCHANGED <<fjobs, fplan, fprev>>
    /\ UNCHANGED <<ovars, xvars>>

\* lines 323-362: one iteration of the loop over the phrases
FilterIterate ==
    /\ fpc = "loop"
    /\ fidx <= Len(PlanFilters(fplan))
    /\ \E r \in {LoopBody(filtered_jobs, PlanFilters(fplan)[fidx])} :
           IF r.raised
           THEN /\ fret' = [raised |-> TRUE, jobs |-> <<>>]
                /\ fpc' = "done"
                /\ fcalls' = fcalls + 1
                /\ UNCHANGED <<filtered_jobs, fbefore, fidx>>
           ELSE /\ filtered_jobs' = r.jobs
                /\ fbefore' = filtered_jobs
                /\ fidx' = fidx + 1
                /\ UNCHANGED <<fret, fpc, fcalls>>
    /\ UNCHANGED <<fjobs, fplan, fprev>>
    /\ UNCHANGED <<ovars, xvars>>

\* lines 364-365: the loop is over, the function returns filtered_jobs
FilterReturn ==
    /\ fpc = "loop"
    /\ fidx > Len(PlanFilters(fplan))
    /\ fret' = [raised |-> FALSE, jobs |-> filtered_jobs]
    /\ fpc' = "done"
    /\ fcalls' = fcalls + 1
    /\ UNCHANGED <<fjobs, fplan, filtered_jobs, fidx, fbefore, fprev>>
    /\ UNCHANGED <<ovars, xvars>>

\* the caller passes the returned list to the function again, same plan
FilterAgain ==
    /\ fpc = "done"
    /\ fcalls < MaxFilterCalls
    /\ ~fret.raised
    /\ fjobs' = fret.jobs
    /\ fprev' = fret
    /\ fpc' = "call"
    /\ filtered_jobs' = <<>>
    /\ fidx' = 0
    /\ fbefore' = <<>>
    /\ fret' = NoReturn
    /\ UNCHANGED <<fplan, fcalls>>
    /\ UNCHANGED <<ovars, xvars>>

FilterNext == FilterEnter \/ FilterIterate \/ FilterReturn \/ FilterAgain

SpecFilter == FilterInit /\ [][FilterNext]_vars

----------------------------------------------------------------------------
(* sample_jobs.SAMPLE_JOBS and sample_jobs.get_sample_jobs *)

SAMPLE_JOBS == <<
    [title |-> "Senior Software Engineer - Python",
     company |-> "TCS",
     location |-> "Bangalore, Karnataka",
     date |-> "Posted 3 days ago",
     link |-> "https://www.foundit.in/job/senior-software-engineer-python-tcs-bangalore-5-to-8-years-12345",
     source |-> "foundit.in",
     description |-> "We are looking for a Senior Software Engineer with strong Python skills to join our development team. You will be responsible for designing, implementing, and maintaining Python applications."],
    [title |-> "Full Stack Developer",
     company |-> "Infosys",
     location |-> "Hyderabad, Telangana",
     date |-> "Posted 5 days ago",
     link |-> "https://www.foundit.in/job/full-stack-developer-infosys-hyderabad-3-to-6-years-23456",
     source |-> "foundit.in",
     description |-> "Seeking Full Stack Developer with experience in React.js and Node.js to develop responsive web applications and RESTful APIs."],
    [title |-> "Data Scientist",
     company |-> "Amazon",
     location |-> "Bangalore, Karnataka",
     date |-> "Posted 2 days ago",
     link |-> "https://www.foundit.in/job/data-scientist-amazon-bangalore-4-to-8-years-34567",
     source |-> "foundit.in",
     description |-> "Join our Data Science team to develop scalable solutions for complex business problems using machine learning and statistical modeling."],
    [title |-> "DevOps Engineer",
     company |-> "Microsoft",
     location |-> "Pune, Maharashtra",
     date |-> "Posted yesterday",
     link |-> "https://www.foundit.in/job/devops-engineer-microsoft-pune-3-to-5-years-45678",
     source |-> "foundit.in",
     description |-> "Looking for a DevOps Engineer to help build and maintain our CI/CD pipelines, infrastructure automation, and cloud platforms."],
    [title |-> "Frontend Developer",
     company |-> "Wipro",
     location |-> "Chennai, Tamil Nadu",
     date |-> "Posted 4 days ago",
     link |-> "https://www.foundit.in/job/frontend-developer-wipro-chennai-2-to-4-years-56789",
     source |-> "foundit.in",
     description |-> "Experienced Frontend Developer needed to create responsive user interfaces with modern JavaScript frameworks like React or Angular."],
    [title |-> "Java Developer",
     company |-> "IBM",
     location |-> "Gurgaon, Haryana",
     date |-> "Posted 1 week ago",
     link |-> "https://www.naukri.com/job-listings-java-developer-ibm-gurgaon-3-to-6-years-67890",
     source |-> "naukri.com",
     description |-> "Java Developer with expertise in Spring Boot and microservices architecture for enterprise application development."],
    [title |-> "Machine Learning Engineer",
     company |-> "Google",
     location |-> "Hyderabad, Telangana",
     date |-> "Posted 3 days ago",
     link |-> "https://www.naukri.com/job-listings-machine-learning-engineer-google-hyderabad-5-to-9-years-78901",
     source |-> "naukri.com",
     description |-> "Machine Learning Engineer to develop AI solutions and work with large-scale data processing and model training pipelines."],
    [title |-> "Backend Developer - Node.js",
     company |-> "Flipkart",
     location |-> "Bangalore, Karnataka",
     date |-> "Posted 6 days ago",
     link |-> "https://www.naukri.com/job-listings-backend-developer-node-js-flipkart-bangalore-4-to-7-years-89012",
     source |-> "naukri.com",
     description |-> "Backend Developer with Node.js experience to build scalable APIs and server-side applications for our e-commerce platform."],
    [title |-> "iOS Developer",
     company |-> "Paytm",
     location |-> "Noida, Uttar Pradesh",
     date |-> "Posted 2 days ago",
     link |-> "https://www.naukri.com/job-listings-ios-developer-paytm-noida-3-to-5-years-90123",
     source |-> "naukri.com",
     description |-> "iOS Developer with Swift programming experience to develop and maintain our financial services mobile applications."],
    [title |-> "Cloud Solutions Architect",
     company |-> "Oracle",
     location |-> "Bangalore, Karnataka",
     date |-> "Posted 5 days ago",
     link |-> "https://www.naukri.com/job-listings-cloud-solutions-architect-oracle-bangalore-8-to-12-years-01234",
     source |-> "naukri.com",
     description |-> "Cloud Solutions Architect to design and implement scalable cloud infrastructure and lead technical discussions with clients."],
    [title |-> "Digital Marketing Manager",
     company |-> "Accenture",
     location |-> "Mumbai, Maharashtra",
     date |-> "Posted 3 days ago",
     link |-> "https://www.indeed.com/viewjob?jk=abcdef1234",
     source |-> "indeed.com",
     description |-> "Digital Marketing Manager needed to develop and implement marketing strategies across digital channels including SEO, PPC, and social media."],
    [title |-> "HR Business Partner",
     company |-> "Deloitte",
     location |-> "Bangalore, Karnataka",
     date |-> "Posted 1 week ago",
     link |-> "https://www.indeed.com/viewjob?jk=bcdef12345",
     source |-> "indeed.com",
     description |-> "HR Business Partner to collaborate with leadership and provide strategic HR support including talent management and employee relations."],
    [title |-> "Finance Analyst",
     company |-> "KPMG",
     location |-> "Gurgaon, Haryana",
     date |-> "Posted 4 days ago",
     link |-> "https://www.indeed.com/viewjob?jk=cdef123456",
     source |-> "indeed.com",
     description |-> "Finance Analyst required for financial reporting, budgeting, forecasting, and business analysis to support decision-making."],
    [title |-> "Operations Manager",
     company |-> "Amazon",
     location |-> "Chennai, Tamil Nadu",
     date |-> "Posted 2 days ago",
     link |-> "https://www.indeed.com/viewjob?jk=def1234567",
     source |-> "indeed.com",
     description |-> "Operations Manager to oversee daily operations, optimize processes, and ensure high performance standards in our fulfillment center."],
    [title |-> "Customer Success Manager",
     company |-> "Salesforce",
     location |-> "Hyderabad, Telangana",
     date |-> "Posted 3 days ago",
     link |-> "https://www.indeed.com/viewjob?jk=ef12345678",
     source |-> "indeed.com",
     description |-> "Customer Success Manager to build relationships with enterprise clients, understand their needs, and ensure they derive maximum value from our solutions."],
    [title |-> "Remote React.js Developer",
     company |-> "Upwork",
     location |-> "Remote",
     date |-> "Posted 1 day ago",
     link |-> "https://www.foundit.in/job/remote-reactjs-developer-upwork-remote-3-to-5-years-54321",
     source |-> "foundit.in",
     description |-> "Looking for a React.js Developer who can work remotely on front-end development projects with modern JavaScript frameworks."],
    [title |-> "Remote Content Writer",
     company |-> "ContentMart",
     location |-> "Remote",
     date |-> "Posted 2 days ago",
     link |-> "https://www.naukri.com/job-listings-remote-content-writer-contentmart-work-from-home-2-to-4-years-65432",
     source |-> "naukri.com",
     description |-> "Remote Content Writer to create engaging content for blogs, websites, and social media platforms across various industries."],
    [title |-> "Remote Project Manager",
     company |-> "IBM",
     location |-> "Remote, India",
     date |-> "Posted 3 days ago",
     link |-> "https://www.indeed.com/viewjob?jk=f123456789",
     source |-> "indeed.com",
     description |-> "Remote Project Manager to lead distributed teams, manage project lifecycles, and ensure timely delivery of IT solutions."],
    [title |-> "Remote UX/UI Designer",
     company |-> "Accenture",
     location |-> "Remote",
     date |-> "Posted 2 days ago",
     link |-> "https://www.indeed.com/viewjob?jk=1234567890a",
     source |-> "indeed.com",
     description |-> "Remote UX/UI Designer to create intuitive user experiences and visually appealing interfaces for web and mobile applications."],
    [title |-> "Remote Data Analyst",
     company |-> "TCS",
     location |-> "Remote, India",
     date |-> "Posted 4 days ago",
     link |-> "https://www.foundit.in/job/remote-data-analyst-tcs-remote-2-to-4-years-76543",
     source |-> "foundit.in",
     description |-> "Remote Data Analyst to extract insights from data, create reports, and support business decision-making processes."]
    >>

RECURSIVE Words(_)
\* str.split(): the words of s, separated by runs of whitespace
Words(s) ==
    IF s = "" THEN <<>>
    ELSE IF IsSpace(Char(s, 1)) THEN Words(Tail(s))
    ELSE LET ends == {i \in 1..Len(s) : IsSpace(Char(s, i))}
         IN  IF ends = {} THEN <<s>>
             ELSE <<SubSeq(s, 1, SetMin(ends) - 1)>>
                      \o Words(SubSeq(s, SetMin(ends), Len(s)))

\* all(term in text for term in terms)
AllTermsIn(text, terms) == \A k \in 1..Len(terms) : Contains(text, terms[k])

\* lines 23-29: the source a site name stands for, "" for any other site
SiteKey(site_name) ==
    IF Contains(Lower(site_name), "foundit") THEN "foundit.in"
    ELSE IF Contains(Lower(site_name), "indeed") THEN "indeed.com"
    ELSE IF Contains(Lower(site_name), "naukri") THEN "naukri.com"
    ELSE ""

\* lines 22-32: the records of the site, all records for an unknown site
SampleBySite(all_jobs, site_name) ==
    IF Truthy(site_name) /\ Lower(site_name) # "any" /\ SiteKey(site_name) # ""
    THEN SelectSeq(all_jobs, LAMBDA job : Lower(job.source) = Lower(SiteKey(site_name)))
    ELSE all_jobs

\* lines 39-47: the test a record passes for the search terms
SampleMatchesTerms(job, search_terms) ==
    \/ AllTermsIn(Lower(job.title), search_terms)
    \/ AllTermsIn(Lower(job.description), search_terms)

\* lines 50 and 57-58 with the filter applied whatever it leaves
KeepUnlessEmpty_Always(filtered, all_jobs) == filtered

\* lines 50 and 57-58: a filter that would leave nothing is not applied
KeepUnlessEmpty(filtered, all_jobs) == IF filtered # <<>> THEN filtered ELSE all_jobs

\* lines 35-49: the search-term filter
SampleBySearch(all_jobs, term) ==
    IF Truthy(term)
    THEN KeepUnlessEmpty(
             SelectSeq(all_jobs, LAMBDA job : SampleMatchesTerms(job, Words(Lower(term)))),
             all_jobs)
    ELSE all_jobs

\* lines 52-58: the location filter
SampleByLocation(all_jobs, loc) ==
    IF Truthy(loc)
    THEN KeepUnlessEmpty(
             SelectSeq(all_jobs, LAMBDA job : Contains(Lower(job.location), Lower(loc))),
             all_jobs)
    ELSE all_jobs

\* xs[:n]: the first n elements, all but the last -n for a negative n
Take(xs, n) ==
    IF n >= 0 THEN SubSeq(xs, 1, IF n < Len(xs) THEN n ELSE Len(xs))
    ELSE SubSeq(xs, 1, IF Len(xs) + n > 0 THEN Len(xs) + n ELSE 0)

\* the return of line 61 without its slice
SampleSlice_All(all_jobs, count) == all_jobs

\* line 61: all_jobs[:min(count, len(all_jobs))]
SampleSlice(all_jobs, count) == Take(all_jobs, IF count < Len(all_jobs) THEN count ELSE Len(all_jobs))

get_sample_jobs(term, loc, site_name, count) ==
    SampleSlice(
        SampleByLocation(SampleBySearch(SampleBySite(SAMPLE_JOBS, site_name), term), loc),
        count)

\* lines 23, 37 and 54 calling lower() without the tests before them
SampleRaises_Unguarded(term, loc, site_name) ==
    ~IsStr(site_name) \/ ~IsStr(term) \/ ~IsStr(loc)

\* lines 23, 37 and 54: lower() is called on site, search_term and location
\* when they are truthy, and raises AttributeError on what is not a string
SampleRaises(term, loc, site_name) ==
    \/ Truthy(site_name) /\ ~IsStr(site_name)
    \/ Truthy(term) /\ ~IsStr(term)
    \/ Truthy(loc) /\ ~IsStr(loc)

----------------------------------------------------------------------------
(* Python helpers of the scrapers *)

\* d.get(key, default)
DictGet(d, key, default) == IF key \in DOMAIN d THEN d[key] ELSE default

RECURSIVE JoinWords(_)
\* ' '.join(words)
JoinWords(words) ==
    IF words = <<>> THEN ""
    ELSE IF Len(words) = 1 THEN words[1]
    ELSE words[1] \o " " \o JoinWords(Tail(words))

\* _clean_text: re.sub(r'\s+', ' ', text).strip(), "" for a falsy text
CleanText(text) == IF ~Truthy(text) THEN "" ELSE JoinWords(Words(text))

\* str.strip() of the text of an element
Strip(text) ==
    LET inner == {i \in 1..Len(text) : ~IsSpace(Char(text, i))}
    IN  IF inner = {} THEN "" ELSE SubSeq(text, SetMin(inner), SetMax(inner))

\* [f(x) for x in xs]
MapSeq(xs, F(_)) == [i \in 1..Len(xs) |-> F(xs[i])]

\* the exception classes the model raises; all derive from Exception
ExceptionClasses == {"TypeError", "NameError"}

----------------------------------------------------------------------------
(* What the network returns *)

\* the outcome of one requests.get of the simple scraper: status 200,
\* another status, or a requests.exceptions.RequestException
RequestOutcomes == {"200", "503", "RequestException"}

\* the JSON-LD script blocks of a page; hiringOrganization.name and
\* jobLocation.address.addressLocality are the keys company and locality
LdBlocks ==
    { [type |-> "JobPosting", title |-> "Data Engineer", company |-> "Acme",
       locality |-> "Pune", datePosted |-> "2024-05-01",
       description |-> "Build data pipelines", url |-> "https://jobs.example/1"],
      [type |-> "JobPosting", company |-> "Acme"],
      [type |-> "invalid JSON"] }

\* the job cards of a page: the text of the title, company, location and
\* date elements a card has
PageCards ==
    { [title |-> "Python  Developer", company |-> "TCS", location |-> "Pune"],
      [title |-> " ", company |-> "TCS"],
      [title |-> "Intern"],
      [company |-> "Infosys"] }

\* the selectors of the list that match the cards of a page
SelectorHits == {{1}, {2, 4}}

\* soup.select(selector) for each of the four selectors
CardsBySelector == {[s \in 1..4 |-> IF s \in H THEN c ELSE <<>>] :
                        H \in SelectorHits, c \in BSeq(PageCards, MaxCards)}

----------------------------------------------------------------------------
(* job_planner.JobPlanner.create_plan *)

supported_sites == <<"foundit.in", "indeed.com", "naukri.com", "linkedin.com">>

DefaultFields == <<"title", "company", "location", "date", "link">>

\* what the chat completion gives: a failure (no key, no network, a reply
\* that is no JSON), or a JSON object
GptReplies ==
    { [ok |-> FALSE],
      [ok |-> TRUE,
       plan |-> [site |-> "https://www.foundit.in", search |-> "AI jobs",
                 location |-> "Pune", filters |-> <<"Remote", "Last 7 days">>,
                 fields |-> DefaultFields]],
      [ok |-> TRUE,
       plan |-> [search |-> "AI jobs", site_details |-> [name |-> "Foundit"]]] }

\* lines 126-137: the required fields a plan lacks get their defaults
FillRequired(p) ==
    p @@ [site |-> "", search |-> "", location |-> "", filters |-> <<>>,
          fields |-> DefaultFields]

\* lines 152-159: the URL of the first supported site the site names
SiteUrl(site_name) ==
    LET hits == {k \in 1..Len(supported_sites) :
                    Contains(Lower(site_name), supported_sites[k])}
    IN  IF Truthy(site_name) /\ hits # {}
        THEN "https://www." \o supported_sites[SetMin(hits)]
        ELSE "https://www.foundit.in"

\* lines 145-149: the phrases built from days and is_remote
PlanFilterPhrases(day_count, remote) ==
    (IF day_count # 0 THEN <<"Last " \o ToString(day_count) \o " days">> ELSE <<>>)
        \o (IF remote THEN <<"Remote">> ELSE <<>>)

\* lines 141-167: the plan built from the parameters when the completion
\* failed; search_term is a str here, never None
FallbackPlan(term, loc, site_name, day_count, remote) ==
    [site |-> SiteUrl(site_name),
     search |-> term,
     location |-> IF Truthy(loc) THEN loc ELSE "",
     filters |-> PlanFilterPhrases(day_count, remote),
     fields |-> DefaultFields]

create_plan(reply, term, loc, site_name, day_count, remote) ==
    IF reply.ok THEN FillRequired(reply.plan)
    ELSE FallbackPlan(term, loc, site_name, day_count, remote)

----------------------------------------------------------------------------
(* app.run_job_scraper: its inputs and the frame of a tier call *)

Sites == {"foundit.in", "indeed.com", "naukri.com", "LinkedIn.com", "shine.com"}

SearchTerms == {"python", "java developer"}

Locations == {"", "Bangalore"}

DayCounts == {0, 7}

NoPlan == [site |-> ""]

inputs == <<search_term, location, site, days, is_remote, max_jobs>>

\* the test of line 111 without lower()
IsLinkedin_CaseSensitive(site_name) ==
    Truthy(site_name) /\ Contains(site_name, "linkedin")

\* line 111: site and "linkedin" in site.lower()
IsLinkedin(site_name) == Truthy(site_name) /\ Contains(Lower(site_name), "linkedin")

\* an except clause for the errors of the network only
AppCatches_RequestOnly(exc) == exc = "RequestException"

\* the except clause of line 260: "except Exception"
AppCatches(exc) == exc \in ExceptionClasses

\* every tier followed by the next one, whatever it found
AfterTier_IgnoresFound(tier, found) ==
    CASE tier = "dedicated" -> "lightweight"
      [] tier = "lightweight" -> "browser"
      [] tier = "browser" -> "simple"
      [] tier = "simple" -> "static"
      [] tier = "static" -> "display"

\* lines 142-211: where run_job_scraper goes when a tier returned
AfterTier(tier, found) ==
    IF found THEN "display"
    ELSE CASE tier = "dedicated" -> "lightweight"
           [] tier = "lightweight" -> "browser"
           [] tier = "browser" -> "simple"
           [] tier = "simple" -> "static"
           [] tier = "static" -> "display"

\* the trace with one more tier, running
Invoked(tr, tier) == Append(tr, [tier |-> tier, ended |-> "running", jobs |-> <<>>])

\* the trace with its last tier ended
Ended(tr, how, list) ==
    [tr EXCEPT ![Len(tr)] = [tier |-> @.tier, ended |-> how, jobs |-> list]]

\* the running tier returns list to run_job_scraper, which assigns it to
\* jobs and tests it
Returns(tr, tier, list) ==
    /\ jobs' = list
    /\ trace' = Ended(tr, "returned", list)
    /\ pc' = AfterTier(tier, list # <<>>)
    /\ tjobs' = <<>>
    /\ tstep' = 0
    /\ UNCHANGED <<inputs, plan, escaped, fvars, xvars>>

\* the running tier raises exc: the assignment to jobs does not happen and
\* the exception reaches the except clause of line 260, then line 266
Raises(tr, exc) ==
    /\ trace' = Ended(tr, "raised", <<>>)
    /\ pc' = "done"
    /\ escaped' = ~AppCatches(exc)
    /\ tjobs' = <<>>
    /\ tstep' = 0
    /\ UNCHANGED <<inputs, plan, jobs, fvars, xvars>>

\* the running tier goes on to its next step with the list acc
Continues(tr, next_pc, acc, step) ==
    /\ pc' = next_pc
    /\ tjobs' = acc
    /\ tstep' = step
    /\ trace' = tr
    /\ UNCHANGED <<inputs, plan, jobs, escaped, fvars, xvars>>

OrchInit ==
    /\ FilterIdle
    /\ ExtraIdle
    /\ pc = "create_plan"
    /\ search_term \in SearchTerms
    /\ location \in Locations
    /\ site \in Sites
    /\ days \in DayCounts
    /\ is_remote \in BOOLEAN
    /\ max_jobs \in 1..MaxJobs
    /\ plan = NoPlan
    /\ jobs = <<>>
    /\ tjobs = <<>>
    /\ tstep = 0
    /\ trace = <<>>
    /\ escaped = FALSE

\* lines 98-113: the plan is created and the first tier chosen
CreatePlan ==
    /\ pc = "create_plan"
    /\ \E reply \in GptReplies :
          plan' = create_plan(reply, search_term, location, site, days, is_remote)
    /\ pc' = IF IsLinkedin(site) THEN "dedicated" ELSE "lightweight"
    /\ UNCHANGED <<inputs, jobs, tjobs, tstep, trace, escaped, fvars, xvars>>

----------------------------------------------------------------------------
(* linkedin_scraper.LinkedInScraper.scrape_linkedin_jobs: the dedicated tier *)

\* _make_request, lines 70-104: first_ok is the attempt that gets status
\* 200; a response if it is one of the max_retries + 1 attempts made, None
\* otherwise; every exception is caught
LinkedInMakeRequest(first_ok) == first_ok <= LinkedInMaxRetries + 1

\* lines 199-209: the record of a JobPosting block, nothing checked
LinkedInStructuredJob(data) ==
    [title |-> DictGet(data, "title", ""),
     company |-> DictGet(data, "company", ""),
     location |-> DictGet(data, "locality", ""),
     date_posted |-> DictGet(data, "datePosted", ""),
     description |-> IF Truthy(DictGet(data, "description", ""))
                     THEN Take(data.description, LinkedInDescriptionCut) \o "..."
                     ELSE "",
     url |-> DictGet(data, "url", ""),
     source |-> "LinkedIn"]

\* lines 191-228: a block that is no JobPosting, or no JSON, gives nothing
LinkedInJsonLd(blocks) ==
    MapSeq(SelectSeq(blocks, LAMBDA data : data.type = "JobPosting"),
           LinkedInStructuredJob)

\* lines 245-264: the record of a card; its elements give cleaned texts
LinkedInCardJob(card) ==
    [title |-> CleanText(DictGet(card, "title", "")),
     company |-> CleanText(DictGet(card, "company", "")),
     location |-> CleanText(DictGet(card, "location", "")),
     date_posted |-> CleanText(DictGet(card, "date", "")),
     url |-> DictGet(card, "href", ""),
     source |-> "LinkedIn"]

\* line 256: "if title and company"
LinkedInAccepts(job) == Truthy(job.title) /\ Truthy(job.company)

\* lines 236-267 and 285-311: the records of the first max_jobs cards
LinkedInCards(cards, limit) ==
    SelectSeq(MapSeq(Take(cards, limit), LinkedInCardJob), LinkedInAccepts)

RECURSIVE LinkedInPageCards(_, _, _)
\* lines 342-370: found are the records of the cards of a further page;
\* the accepted ones are appended until the list is full
LinkedInPageCards(acc, found, limit) ==
    IF found = <<>> \/ Len(acc) >= limit THEN acc
    ELSE LinkedInPageCards(
             IF LinkedInAccepts(Head(found)) THEN Append(acc, Head(found)) ELSE acc,
             Tail(found), limit)

\* lines 178-228: the first request and the JSON-LD blocks of the page
LinkedInFetch ==
    /\ pc = "dedicated"
    /\ \E first_ok \in 1..(LinkedInMaxRetries + 2),
          blocks \in BSeq(LdBlocks, MaxBlocks) :
          IF ~LinkedInMakeRequest(first_ok)
          THEN Returns(Invoked(trace, "dedicated"), "dedicated", <<>>)
          ELSE Continues(Invoked(trace, "dedicated"), "li_html",
                         LinkedInJsonLd(blocks), 0)

\* lines 231-270: the cards of the page, if the blocks gave nothing
LinkedInHtml ==
    /\ pc = "li_html"
    /\ IF tjobs # <<>>
       THEN Continues(trace, "li_api", tjobs, 0)
       ELSE \E cards \in BSeq(PageCards, MaxCards) :
               Continues(trace, "li_api", LinkedInCards(cards, max_jobs), 0)

\* lines 273-313: the cards of the guest API, if there is still nothing;
\* line 319 sets start_val for the pages that follow
LinkedInApi ==
    /\ pc = "li_api"
    /\ IF tjobs # <<>>
       THEN Continues(trace, "li_page", tjobs, PaginationStep)
       ELSE \E first_ok \in 1..(LinkedInMaxRetries + 2),
               cards \in BSeq(PageCards, MaxCards) :
               Continues(trace, "li_page",
                         IF LinkedInMakeRequest(first_ok)
                         THEN LinkedInCards(cards, max_jobs) ELSE <<>>,
                         PaginationStep)

\* lines 322-376: one round of the pagination loop; a failed request or
\* a page without cards leaves the loop
LinkedInNextPage(acc, response, cards, limit) ==
    IF ~response \/ cards = <<>>
    THEN [break |-> TRUE, jobs |-> acc]
    ELSE [break |-> FALSE,
          jobs |-> LinkedInPageCards(acc, MapSeq(cards, LinkedInCardJob), limit)]

\* lines 316-379: one more page while the list is neither empty nor full,
\* then the return of at most max_jobs records
LinkedInPage ==
    /\ pc = "li_page"
    /\ IF Len(tjobs) > 0 /\ Len(tjobs) < max_jobs /\ tstep < PaginationCap
       THEN \E page \in {LinkedInNextPage(tjobs, response, cards, max_jobs) :
                            response \in {LinkedInMakeRequest(first_ok) :
                                             first_ok \in 1..(LinkedInMaxRetries + 2)},
                            cards \in BSeq(PageCards, MaxCards)} :
               IF page.break
               THEN Returns(trace, "dedicated", Take(page.jobs, max_jobs))
               ELSE Continues(trace, "li_page", page.jobs, tstep + PaginationStep)
       ELSE Returns(trace, "dedicated", Take(tjobs, max_jobs))

----------------------------------------------------------------------------
(* ultra_light_scraper.UltraLightScraper: the lightweight tier *)

\* _make_request, lines 96-130: first_ok is the attempt that gets status
\* 200; a response if it is one of the max_retries + 1 attempts made, None
\* after the last one
UltraMakeRequest(first_ok) == first_ok <= UltraMaxRetries + 1

\* lines 152-160: the record of a JobPosting block, nothing checked
UltraStructuredJob(data) ==
    [title |-> DictGet(data, "title", ""),
     company |-> DictGet(data, "company", ""),
     location |-> DictGet(data, "locality", ""),
     posted_date |-> DictGet(data, "datePosted", ""),
     source |-> "Structured Data",
     description |-> IF Truthy(DictGet(data, "description", ""))
                     THEN Take(data.description, DescriptionCut) \o "..."
                     ELSE ""]

\* _extract_structured_data, lines 138-181
UltraExtractStructured(blocks) ==
    MapSeq(SelectSeq(blocks, LAMBDA data : data.type = "JobPosting"),
           UltraStructuredJob)

\* lines 203-211: the structured records come first, at most max_jobs
UltraWithStructured(structured_jobs, limit) == Take(structured_jobs, limit)

\* lines 226-241 of _scrape_foundit, 340-357 of _scrape_indeed: the record
\* of a card; a card without an element gets the default of that field
UltraCardJob(card, loc, source_name) ==
    [title |-> IF HasKey(card, "title") THEN CleanText(card.title) ELSE "Unknown Title",
     company |-> IF HasKey(card, "company") THEN CleanText(card.company)
                 ELSE "Unknown Company",
     location |-> IF HasKey(card, "location") THEN CleanText(card.location) ELSE loc,
     posted_date |-> IF source_name = "Indeed.com" /\ HasKey(card, "date")
                     THEN CleanText(card.date) ELSE "Recent",
     source |-> source_name,
     description |-> "View job details on " \o source_name]

\* lines 224-247: the cards one selector found, cut to the room left
UltraCards(acc, cards, loc, source_name, limit) ==
    acc \o [i \in 1..Len(Take(cards, limit - Len(acc))) |->
                UltraCardJob(cards[i], loc, source_name)]

RECURSIVE UltraSelectors(_, _, _, _, _, _)
\* lines 221-250: the loop over the selectors from selector s on; it
\* returns from the function as soon as a card fills the list
UltraSelectors(acc, by_selector, s, loc, source_name, limit) ==
    IF s > 4 THEN [returned |-> FALSE, jobs |-> acc]
    ELSE IF by_selector[s] # <<>>
            /\ Len(UltraCards(acc, by_selector[s], loc, source_name, limit)) >= limit
         THEN [returned |-> TRUE,
               jobs |-> UltraCards(acc, by_selector[s], loc, source_name, limit)]
    ELSE UltraSelectors(UltraCards(acc, by_selector[s], loc, source_name, limit),
                        by_selector, s + 1, loc, source_name, limit)

\* the elements the generic search of _scrape_foundit finds: the text of
\* the heading of each, if it has one
GenericElements == {[heading |-> "QA  Engineer"], [heading |-> " "], [class |-> "job"]}

\* lines 262-285: the record of a generic element
UltraGenericJob(element, loc) ==
    [title |-> IF HasKey(element, "heading") THEN CleanText(element.heading)
               ELSE "Job Opening",
     company |-> "Unknown Company",
     location |-> IF Truthy(loc) THEN loc ELSE "Various Locations",
     posted_date |-> "Recent",
     source |-> "Foundit.in",
     description |-> "Job details extracted using lightweight scraper"]

\* lines 276: "if title and title != 'Job Opening'"
UltraGenericAccepts(job) == Truthy(job.title) /\ job.title # "Job Opening"

RECURSIVE UltraGeneric(_, _, _, _)
\* lines 260-291: the generic elements, until the list is full
UltraGeneric(acc, elements, loc, limit) ==
    IF elements = <<>> THEN acc
    ELSE IF UltraGenericAccepts(UltraGenericJob(Head(elements), loc))
         THEN IF Len(acc) + 1 >= limit
              THEN Append(acc, UltraGenericJob(Head(elements), loc))
              ELSE UltraGeneric(Append(acc, UltraGenericJob(Head(elements), loc)),
                                Tail(elements), loc, limit)
    ELSE IF Len(acc) >= limit THEN acc
    ELSE UltraGeneric(acc, Tail(elements), loc, limit)

\* lines 370-387 of _scrape_indeed: the record of a mosaic cell
UltraMosaicJob(cell, loc) ==
    [title |-> IF HasKey(cell, "title") THEN CleanText(cell.title) ELSE "Unknown Title",
     company |-> IF HasKey(cell, "company") THEN CleanText(cell.company)
                 ELSE "Unknown Company",
     location |-> IF HasKey(cell, "location") THEN CleanText(cell.location) ELSE loc,
     posted_date |-> "Recent",
     source |-> "Indeed.com",
     description |-> "View job details on Indeed.com"]

\* lines 369-392: the first max_jobs mosaic cells, every one appended
UltraMosaic(cells, loc, limit) ==
    [i \in 1..Len(Take(cells, limit)) |-> UltraMosaicJob(cells[i], loc)]

\* lines 431-441 of _scrape_linkedin: the record of a JobPosting block
UltraLinkedinStructuredJob(data) ==
    [title |-> DictGet(data, "title", ""),
     company |-> DictGet(data, "company", ""),
     location |-> DictGet(data, "locality", ""),
     date_posted |-> DictGet(data, "datePosted", ""),
     description |-> IF Truthy(DictGet(data, "description", ""))
                     THEN Take(data.description, LinkedInDescriptionCut) \o "..."
                     ELSE "",
     url |-> DictGet(data, "url", ""),
     source |-> "LinkedIn"]

\* lines 424-461
UltraLinkedinJsonLd(blocks) ==
    MapSeq(SelectSeq(blocks, LAMBDA data : data.type = "JobPosting"),
           UltraLinkedinStructuredJob)

\* lines 484-521: the record of an HTML card; _extract_with_selectors gives
\* the cleaned text of the element, "" without one; url stays None
UltraLinkedinCardJob(card, loc) ==
    [title |-> CleanText(DictGet(card, "title", "")),
     company |-> CleanText(DictGet(card, "company", "")),
     location |-> IF Truthy(CleanText(DictGet(card, "location", "")))
                  THEN CleanText(card.location) ELSE loc,
     date_posted |-> IF Truthy(CleanText(DictGet(card, "date", "")))
                     THEN CleanText(card.date) ELSE "Recent",
     url |-> DictGet(card, "href", PyNone),
     source |-> "LinkedIn"]

\* line 513: "if title and (company or job_location)"
UltraLinkedinAccepts(card) ==
    /\ Truthy(CleanText(DictGet(card, "title", "")))
    /\ \/ Truthy(CleanText(DictGet(card, "company", "")))
       \/ Truthy(CleanText(DictGet(card, "location", "")))

\* lines 482-526: the records of the first max_jobs cards
UltraLinkedinCards(cards, loc, limit) ==
    MapSeq(SelectSeq(Take(cards, limit), UltraLinkedinAccepts),
           LAMBDA card : UltraLinkedinCardJob(card, loc))

\* lines 548-562: the record of a card of the guest API; an element gives
\* its stripped text, a missing one None
UltraLinkedinApiJob(card, loc) ==
    [title |-> Strip(card.title),
     company |-> IF HasKey(card, "company") THEN Strip(card.company) ELSE PyNone,
     location |-> IF HasKey(card, "location") /\ Truthy(Strip(card.location))
                  THEN Strip(card.location) ELSE loc,
     date_posted |-> IF HasKey(card, "date") /\ Truthy(Strip(card.date))
                     THEN Strip(card.date) ELSE "Recent",
     url |-> DictGet(card, "href", PyNone),
     source |-> "LinkedIn"]

\* line 554: "if title and (company or job_location)"
UltraLinkedinApiAccepts(card) ==
    /\ HasKey(card, "title") /\ Truthy(Strip(card.title))
    /\ \/ HasKey(card, "company") /\ Truthy(Strip(card.company))
       \/ HasKey(card, "location") /\ Truthy(Strip(card.location))

\* lines 539-565
UltraLinkedinApiCards(cards, loc, limit) ==
    MapSeq(SelectSeq(Take(cards, limit), UltraLinkedinApiAccepts),
           LAMBDA card : UltraLinkedinApiJob(card, loc))

\* lines 80-91 of scrape_jobs: the method the site name selects
UltraRoute(site_name) ==
    IF Contains(Lower(site_name), "foundit") \/ Contains(Lower(site_name), "monster")
    THEN "uf_fetch"
    ELSE IF Contains(Lower(site_name), "indeed") THEN "ui_fetch"
    ELSE IF Contains(Lower(site_name), "naukri") THEN "_scrape_naukri"
    ELSE IF Contains(Lower(site_name), "linkedin") THEN "uli_fetch"
    ELSE "uf_fetch"

\* scrape_jobs, lines 65-93.  _scrape_naukri (lines 397-399) ends without a
\* return statement, so it gives None and len(jobs) of line 93 raises
\* TypeError; the other methods start with their request
UltraDispatch ==
    /\ pc = "lightweight"
    /\ IF UltraRoute(site) = "_scrape_naukri"
       THEN Raises(Invoked(trace, "lightweight"), "TypeError")
       ELSE Continues(Invoked(trace, "lightweight"), UltraRoute(site), <<>>, 0)

\* _scrape_foundit lines 197-211, _scrape_indeed lines 310-324: the request
\* and the structured data of the page
UltraFetch ==
    /\ pc \in {"uf_fetch", "ui_fetch"}
    /\ \E first_ok \in 1..(UltraMaxRetries + 2),
          blocks \in BSeq(LdBlocks, MaxBlocks) :
          IF ~UltraMakeRequest(first_ok)
          THEN Returns(trace, "lightweight", <<>>)
          ELSE IF UltraExtractStructured(blocks) # <<>>
                  /\ Len(UltraWithStructured(UltraExtractStructured(blocks), max_jobs))
                        >= max_jobs
               THEN Returns(trace, "lightweight",
                            Take(UltraWithStructured(UltraExtractStructured(blocks),
                                                     max_jobs), max_jobs))
          ELSE Continues(trace,
                         IF pc = "uf_fetch" THEN "uf_selectors" ELSE "ui_selectors",
                         UltraWithStructured(UltraExtractStructured(blocks), max_jobs), 0)

\* _scrape_foundit lines 214-250, _scrape_indeed lines 327-364: the loop
\* over the four selectors
UltraSelectorLoop ==
    /\ pc \in {"uf_selectors", "ui_selectors"}
    /\ \E by_selector \in CardsBySelector :
       \E r \in {UltraSelectors(tjobs, by_selector, 1, location,
                                IF pc = "uf_selectors" THEN "Foundit.in"
                                ELSE "Indeed.com", max_jobs)} :
          IF r.returned THEN Returns(trace, "lightweight", r.jobs)
          ELSE Continues(trace,
                         IF pc = "uf_selectors" THEN "uf_generic" ELSE "ui_mosaic",
                         r.jobs, 0)

\* _scrape_foundit lines 252-293: the generic search, if nothing was found
UltraFounditGeneric ==
    /\ pc = "uf_generic"
    /\ IF tjobs # <<>> THEN Returns(trace, "lightweight", tjobs)
       ELSE \E elements \in BSeq(GenericElements, MaxCards) :
               Returns(trace, "lightweight",
                       UltraGeneric(<<>>, Take(elements, max_jobs), location, max_jobs))

\* _scrape_indeed lines 366-394: the mosaic cells, if nothing was found
UltraIndeedMosaic ==
    /\ pc = "ui_mosaic"
    /\ IF tjobs # <<>> THEN Returns(trace, "lightweight", tjobs)
       ELSE \E cells \in BSeq(PageCards, MaxCards) :
               Returns(trace, "lightweight", UltraMosaic(cells, location, max_jobs))

\* _scrape_linkedin lines 405-461: the request and the JSON-LD blocks
UltraLinkedinFetch ==
    /\ pc = "uli_fetch"
    /\ \E first_ok \in 1..(UltraMaxRetries + 2),
          blocks \in BSeq(LdBlocks, MaxBlocks) :
          IF ~UltraMakeRequest(first_ok)
          THEN Returns(trace, "lightweight", <<>>)
          ELSE Continues(trace, "uli_html", UltraLinkedinJsonLd(blocks), 0)

\* _scrape_linkedin lines 463-526: the HTML cards, if there is nothing yet
UltraLinkedinHtml ==
    /\ pc = "uli_html"
    /\ IF tjobs # <<>> THEN Continues(trace, "uli_api", tjobs, 0)
       ELSE \E cards \in BSeq(PageCards, MaxCards) :
               Continues(trace, "uli_api",
                         UltraLinkedinCards(cards, location, max_jobs), 0)

\* _scrape_linkedin lines 528-573: the guest API, if there is still
\* nothing, and the return of at most max_jobs records
UltraLinkedinApi ==
    /\ pc = "uli_api"
    /\ IF tjobs # <<>> THEN Returns(trace, "lightweight", Take(tjobs, max_jobs))
       ELSE \E first_ok \in 1..(UltraMaxRetries + 2),
               cards \in BSeq(PageCards, MaxCards) :
               Returns(trace, "lightweight",
                       Take(IF UltraMakeRequest(first_ok)
                            THEN UltraLinkedinApiCards(cards, location, max_jobs)
                            ELSE <<>>, max_jobs))

----------------------------------------------------------------------------
(* browser_executor.BrowserExecutor.execute_plan: the browser tier *)

\* lines 567-706: without site_details the plan gives [] at once; with
\* them, line 586 reads the name random, which the module never imports,
\* and the NameError is caught at line 694 with jobs still empty
execute_plan(p, limit) ==
    IF ~HasKey(p, "site_details") \/ p.site_details = EmptyDict THEN <<>>
    ELSE Take(<<>>, limit)

Browser ==
    /\ pc = "browser"
    /\ Returns(Invoked(trace, "browser"), "browser", execute_plan(plan, max_jobs))

----------------------------------------------------------------------------
(* simple_scraper.SimpleScraper: the simple tier *)

SimpleUrls == 3

\* lines 51-59 of scrape_jobs: whether the site has a method
SimpleSupports(site_name) ==
    \/ Contains(Lower(site_name), "foundit")
    \/ Contains(Lower(site_name), "indeed")
    \/ Contains(Lower(site_name), "naukri")

\* lines 164-264: the record of a card with a title; the other fields are
\* what the selectors and the text of the card give, "" for nothing
SimpleCardJob(card) ==
    [title |-> Strip(card.title),
     company |-> Strip(DictGet(card, "company", "")),
     location |-> Strip(DictGet(card, "location", "")),
     date |-> Strip(DictGet(card, "date", "")),
     link |-> DictGet(card, "href", "")]

\* line 164: a card without a title text is skipped
SimpleHasTitle(card) == HasKey(card, "title") /\ Truthy(Strip(card.title))

\* line 267: "if title and (company or location or date or link)"
SimpleAccepts(job) ==
    /\ Truthy(job.title)
    /\ Truthy(job.company) \/ Truthy(job.location) \/ Truthy(job.date)
          \/ Truthy(job.link)

RECURSIVE SimpleCards(_, _, _)
\* lines 147-278: the loop over the cards, left when max_jobs are extracted
SimpleCards(acc, cards, limit) ==
    IF cards = <<>> THEN acc
    ELSE IF SimpleHasTitle(Head(cards)) /\ SimpleAccepts(SimpleCardJob(Head(cards)))
         THEN IF Len(acc) + 1 >= limit THEN Append(acc, SimpleCardJob(Head(cards)))
              ELSE SimpleCards(Append(acc, SimpleCardJob(Head(cards))),
                               Tail(cards), limit)
         ELSE SimpleCards(acc, Tail(cards), limit)

\* scrape_jobs, lines 44-59: a site without a method gives []
SimpleDispatch ==
    /\ pc = "simple"
    /\ IF SimpleSupports(site)
       THEN Continues(Invoked(trace, "simple"), "simple_url", <<>>, 1)
       ELSE Returns(Invoked(trace, "simple"), "simple", <<>>)

\* one round of the loop over urls_to_try (lines 88-291, 323-496, 533-705):
\* a status other than 200 or an exception goes on to the next URL, a page
\* with accepted cards returns them, the last URL without any returns []
SimpleUrl ==
    /\ pc = "simple_url"
    /\ \E outcome \in RequestOutcomes, cards \in BSeq(PageCards, MaxCards) :
       \E found \in {IF outcome = "200"
                     THEN SimpleCards(<<>>, Take(cards, max_jobs * 3), max_jobs)
                     ELSE <<>>} :
          IF found # <<>> THEN Returns(trace, "simple", found)
          ELSE IF tstep < SimpleUrls THEN Continues(trace, "simple_url", <<>>, tstep + 1)
          ELSE Returns(trace, "simple", <<>>)

----------------------------------------------------------------------------
(* sample_jobs.get_sample_jobs: the static tier, and the end of the run *)

\* app.py lines 206-211
Static ==
    /\ pc = "static"
    /\ Returns(Invoked(trace, "static"), "static",
               get_sample_jobs(search_term, location, site, max_jobs))

\* app.py lines 221-266: the result is shown and returned
Display ==
    /\ pc = "display"
    /\ pc' = "done"
    /\ UNCHANGED <<inputs, plan, jobs, tjobs, tstep, trace, escaped, fvars, xvars>>

OrchNext ==
    \/ CreatePlan
    \/ LinkedInFetch \/ LinkedInHtml \/ LinkedInApi \/ LinkedInPage
    \/ UltraDispatch \/ UltraFetch \/ UltraSelectorLoop
    \/ UltraFounditGeneric \/ UltraIndeedMosaic
    \/ UltraLinkedinFetch \/ UltraLinkedinHtml \/ UltraLinkedinApi
    \/ Browser
    \/ SimpleDispatch \/ SimpleUrl
    \/ Static
    \/ Display

Spec == OrchInit /\ [][OrchNext]_vars

----------------------------------------------------------------------------
(* Properties of run_job_scraper *)

\* the tiers in the order of the fallback chain
TierSequence == <<"dedicated", "lightweight", "browser", "simple", "static">>

TierRank(tier) == CHOOSE k \in 1..Len(TierSequence) : TierSequence[k] = tier

ReturnedEmpty(entry) == entry.ended = "returned" /\ entry.jobs = <<>>

ReturnedSome(entry) == entry.ended = "returned" /\ entry.jobs # <<>>

\* C1: a later tier is invoked if and only if every tier before it in the
\* sequence returned an empty list: every tier of the trace but the first
\* is the successor of the one before it and all tiers before it returned
\* empty; a tier other than the last that returned empty is followed by
\* its successor; and once a tier returned a non-empty list no other tier
\* is invoked and that list is the result.
C1_TierOrder ==
    /\ \A i \in 2..Len(trace) :
          /\ TierRank(trace[i].tier) = TierRank(trace[i - 1].tier) + 1
          /\ \A k \in 1..(i - 1) : ReturnedEmpty(trace[k])
    /\ trace # <<>> /\ ReturnedEmpty(trace[Len(trace)])
          /\ trace[Len(trace)].tier # "static"
       => pc = TierSequence[TierRank(trace[Len(trace)].tier) + 1]
    /\ trace # <<>> /\ ReturnedSome(trace[Len(trace)])
       => pc \in {"display", "done"} /\ jobs = trace[Len(trace)].jobs

\* the simple scraper was reached after two empty tiers, found records,
\* and the run ended with them
C1_Witness ==
    /\ pc = "done"
    /\ Len(trace) = 3
    /\ trace[3].tier = "simple"
    /\ ReturnedSome(trace[3])
    /\ jobs = trace[3].jobs

\* C2: a tier that raises is treated as a tier that returned an empty
\* list: at the end of a run in which a tier raised, the tiers after it
\* were tried, down to the static dataset unless one of them found records.
C2_RaiseIsEmpty ==
    pc = "done" =>
        \A i \in 1..Len(trace) :
            trace[i].ended = "raised" =>
                /\ i < Len(trace)
                /\ \/ trace[Len(trace)].tier = "static"
                   \/ ReturnedSome(trace[Len(trace)])

RecognizedPortals == {"foundit.in", "indeed.com", "naukri.com"}

\* a record of the static dataset of the site, with every word of the
\* search in its title or in its description, at the location
StaticMatch(job) ==
    /\ Lower(job.source) = site
    /\ \/ \A w \in 1..Len(Words(Lower(search_term))) :
              Contains(Lower(job.title), Words(Lower(search_term))[w])
       \/ \A w \in 1..Len(Words(Lower(search_term))) :
              Contains(Lower(job.description), Words(Lower(search_term))[w])
    /\ Contains(Lower(job.location), Lower(location))

NoLiveRecord == \A i \in 1..Len(trace) : trace[i].tier # "static" => trace[i].jobs = <<>>

\* C3: for a recognized portal and max_jobs >= 1, a run in which no live
\* tier produced a record returns a non-empty list whenever the static
\* dataset holds a record matching the site, the search and the location.
C3_StaticLastResort ==
    /\ pc = "done"
    /\ site \in RecognizedPortals
    /\ max_jobs >= 1
    /\ NoLiveRecord
    /\ \E k \in 1..Len(SAMPLE_JOBS) : StaticMatch(SAMPLE_JOBS[k])
    => jobs # <<>>

\* C4: no exception escapes run_job_scraper: when it is over, whatever was
\* raised was caught and the value returned is a list.
C4_NoEscape ==
    pc = "done" => ~escaped /\ jobs = [k \in 1..Len(jobs) |-> jobs[k]]

\* a tier raised, the exception was caught and the run returned a list
C4_Witness ==
    /\ pc = "done"
    /\ trace # <<>>
    /\ trace[Len(trace)].ended = "raised"
    /\ ~escaped
    /\ jobs = <<>>

\* a record with a non-empty title and another non-empty field
ValidRecord(job) ==
    /\ "title" \in DOMAIN job
    /\ Truthy(job.title)
    /\ \E field \in DOMAIN job \ {"title"} : Truthy(job[field])

\* C5: every record of a list returned by a tier has a non-empty title and
\* at least one other non-empty field.
C5_MinimumValidity ==
    \A i \in 1..Len(trace) :
        \A k \in 1..Len(trace[i].jobs) : ValidRecord(trace[i].jobs[k])

\* C6: the result of run_job_scraper never holds more than max_jobs
\* records, whichever tier produced it.
C6_AtMostMaxJobs ==
    /\ Len(jobs) <= max_jobs
    /\ \A i \in 1..Len(trace) : Len(trace[i].jobs) <= max_jobs

\* the static dataset had more records than asked for and the run ended
\* with exactly max_jobs of them
C6_Witness ==
    /\ pc = "done"
    /\ trace # <<>>
    /\ trace[Len(trace)].tier = "static"
    /\ Len(SampleBySite(SAMPLE_JOBS, site)) > max_jobs
    /\ Len(jobs) = max_jobs

\* the site name holds the letters of "linkedin", in either case
NamesLinkedin(site_name) ==
    \E i \in 1..Len(site_name) :
        i + 7 <= Len(site_name) /\ Lower(SubSeq(site_name, i, i + 7)) = "linkedin"

\* C7: for a LinkedIn site the dedicated scraper is the first tier and the
\* lightweight scraper is invoked only after the dedicated scraper
\* returned an empty list; for any other site the lightweight scraper is
\* the first tier and the dedicated scraper is never invoked.
C7_DedicatedFirst ==
    /\ pc \in {"dedicated", "li_html", "li_api", "li_page"} => NamesLinkedin(site)
    /\ trace # <<>> =>
          IF NamesLinkedin(site)
          THEN /\ trace[1].tier = "dedicated"
               /\ \A i \in 1..Len(trace) :
                     trace[i].tier = "lightweight" => i = 2 /\ ReturnedEmpty(trace[1])
          ELSE /\ trace[1].tier = "lightweight"
               /\ \A i \in 1..Len(trace) : trace[i].tier # "dedicated"

\* a LinkedIn search in which the dedicated scraper found nothing and the
\* lightweight scraper was invoked after it
C7_Witness ==
    /\ NamesLinkedin(site)
    /\ Len(trace) >= 2
    /\ trace[1].tier = "dedicated"
    /\ ReturnedEmpty(trace[1])
    /\ trace[2].tier = "lightweight"

----------------------------------------------------------------------------
(* Properties of the filter engine *)

\* the phrase the last completed loop iteration processed
LastPhrase == PlanFilters(fplan)[fidx - 1]

\* C8: at every point of a call the current list is an order-preserving
\* sub-list of the list before the last phrase, which is one of the input;
\* the returned list is an order-preserving sub-list of the input.  Records
\* are compared whole, so none is added, duplicated, reordered or altered,
\* and none a phrase removed comes back.
C8_SubList ==
    /\ fpc = "loop" =>
          /\ IsSubSeq(filtered_jobs, fbefore)
          /\ IsSubSeq(fbefore, fjobs)
    /\ (fpc = "done" /\ ~fret.raised) => IsSubSeq(fret.jobs, fjobs)

\* a call with two phrases returned: the first phrase removed a record, the
\* second another one, and what is returned is a proper sub-list
C8_Witness ==
    /\ fpc = "done"
    /\ ~fret.raised
    /\ fidx = 3
    /\ Len(fjobs) = 2
    /\ Len(fbefore) = 1
    /\ fret.jobs = <<>>
    /\ filtered_jobs = fret.jobs

\* C9: a second call on the returned list, with the same phrases, returns
\* the same list; and inside a call, a phrase that repeats the phrase just
\* before it leaves the list as that one left it.
C9_Idempotent ==
    /\ (fpc = "done" /\ fcalls >= 2 /\ ~fret.raised) => fret.jobs = fprev.jobs
    /\ (fpc = "loop" /\ fidx >= 3
            /\ PlanFilters(fplan)[fidx - 1] = PlanFilters(fplan)[fidx - 2])
          => filtered_jobs = fbefore

\* the second call of a one-phrase plan returned; the phrase had removed
\* records from the original list and kept others
C9_Witness ==
    /\ fpc = "done"
    /\ fcalls = 2
    /\ ~fret.raised
    /\ PlanFilters(fplan) = <<"Remote">>
    /\ Len(fprev.jobs) = 1
    /\ fret.jobs = fprev.jobs
    /\ fidx = 2

\* the phrase belongs to none of the four categories: it holds none of the
\* keywords of the remote, recency and experience branches and the salary
\* pattern does not match it
NoCategory(phrase) ==
    /\ ~AnyTermIn(Lower(phrase),
                  <<"remote", "work from home", "wfh",
                    "last 24 hours", "today", "last 3 days", "last 7 days",
                    "week", "last 30 days", "month",
                    "entry", "junior", "mid", "intermediate", "senior",
                    "experienced">>)
    /\ ~FilterSalarySearch(Lower(phrase)).ok

\* C10: after a loop iteration on a phrase of no category the list is the
\* list before it, and such a phrase never makes the call raise.
C10_NoOp ==
    /\ (fpc \in {"loop", "done"} /\ fidx >= 2 /\ NoCategory(LastPhrase))
          => filtered_jobs = fbefore
    /\ (fpc = "done" /\ fret.raised)
          => ~NoCategory(PlanFilters(fplan)[fidx])

\* the loop has just processed "2-5 years" on a list that holds a record
\* posted three months ago and a record whose title says "Senior"
C10_Witness ==
    /\ fpc = "loop"
    /\ fidx = 2
    /\ LastPhrase = "2-5 years"
    /\ Len(filtered_jobs) = 2
    /\ \E i \in 1..2 : filtered_jobs[i].title = "Analyst"
    /\ \E i \in 1..2 : filtered_jobs[i].title = "Senior Dev"
    /\ filtered_jobs = fbefore

----------------------------------------------------------------------------
(* JobExtractor.extract_job_from_jsonld *)

\* lines 301-315 with the range written without its upper bound
JsonLdSalary_MinOnly(salary_data) ==
    LET value == DictGet(salary_data, "value", EmptyDict)
        min_value == DictGet(value, "minValue", 0)
        unit == DictGet(value, "unitText", "")
        currency == DictGet(salary_data, "currency", "")
    IN  IF min_value # 0
        THEN currency \o ToString(min_value) \o "+ " \o unit
        ELSE PyNone

\* lines 301-315: the text of job['salary'], PyNone when the key is not
\* set.  minValue and maxValue are JSON numbers; an absent one is '', which
\* is falsy as 0 is.
JsonLdSalary(salary_data) ==
    LET value == DictGet(salary_data, "value", EmptyDict)
        min_value == DictGet(value, "minValue", 0)
        max_value == DictGet(value, "maxValue", 0)
        unit == DictGet(value, "unitText", "")
        currency == DictGet(salary_data, "currency", "")
    IN  IF min_value # 0 /\ max_value # 0
        THEN currency \o ToString(min_value) \o "-"
                \o currency \o ToString(max_value) \o " " \o unit
        ELSE IF min_value # 0
        THEN currency \o ToString(min_value) \o "+ " \o unit
        ELSE PyNone

\* the optional key k with value v, left out when v is PyNone
OptionalKey(k, v) == IF v = PyNone THEN EmptyDict ELSE [x \in {k} |-> v]

\* lines 278-318: the record built from a JobPosting whose jobLocation, when
\* present, is a dict and whose site, when given, is a bare domain name
JsonLdJob(data, site_name) ==
               [title |-> DictGet(data, "title", ""),
                company |-> DictGet(DictGet(data, "hiringOrganization", EmptyDict),
                                    "name", ""),
                description |-> DictGet(data, "description", ""),
                source |-> IF Truthy(site_name) THEN site_name ELSE "Unknown"]
               @@ OptionalKey("location",
                     IF HasKey(data, "jobLocation")
                     THEN DictGet(DictGet(data["jobLocation"], "address", EmptyDict),
                                  "addressLocality", "")
                     ELSE PyNone)
               @@ OptionalKey("date_posted", DictGet(data, "datePosted", PyNone))
               @@ OptionalKey("job_url", DictGet(data, "url", PyNone))
               @@ OptionalKey("salary",
                     IF HasKey(data, "baseSalary")
                     THEN JsonLdSalary(data["baseSalary"])
                     ELSE PyNone)

\* lines 320-322: the record is returned, None otherwise
JsonLdAccepts(job) ==
    /\ Truthy(job.title)
    /\ \/ Truthy(job.company)
       \/ Truthy(DictGet(job, "location", ""))
       \/ Truthy(DictGet(job, "job_url", ""))

\* the records extract_job_from_jsonld returns for a set of documents
extract_job_from_jsonld(documents, site_name) ==
    {JsonLdJob(data, site_name) :
        data \in {d \in documents : JsonLdAccepts(JsonLdJob(d, site_name))}}

\* JobPosting documents: four ways to state the salary, and one document
\* with too little to make a record
JobPostings ==
    { [title |-> "Data Engineer", hiringOrganization |-> [name |-> "Acme"],
       baseSalary |-> [value |-> [minValue |-> 10, maxValue |-> 15,
                                  unitText |-> "LPA"]]],
      [title |-> "Data Engineer", hiringOrganization |-> [name |-> "Acme"],
       baseSalary |-> [currency |-> "INR",
                       value |-> [minValue |-> 10, maxValue |-> 15,
                                  unitText |-> "LPA"]]],
      [title |-> "Data Engineer", url |-> "https://acme.example/jobs/7",
       jobLocation |-> [address |-> [addressLocality |-> "Pune"]],
       baseSalary |-> [value |-> [minValue |-> 10, unitText |-> "LPA"]]],
      [title |-> "Data Engineer", hiringOrganization |-> [name |-> "Acme"],
       datePosted |-> "2024-05-01"],
      [title |-> "Data Engineer",
       baseSalary |-> [value |-> [minValue |-> 10, maxValue |-> 15,
                                  unitText |-> "LPA"]]] }

----------------------------------------------------------------------------
(* Calls of the filter engine with one record and one phrase *)

\* records and phrases for calls with one record and one phrase: every
\* date, salary and seniority wording the predicates tell apart
ProbeDates ==
    {"5 hours ago", "25 hours ago", "1 day ago", "3 days ago", "4 days ago",
     "1 week ago", "2 weeks ago", "1 month ago", "2 months ago"}

UnparsedDates == {"2024-05-01", "Recently", "30+ days"}

ProbeSalaries ==
    {"10-15 LPA", "INR10-INR15 LPA", "900k", "1500k", "14.5 LPA", "1 cr",
     "16 lakhs", "Negotiable"}

ProbeJobs ==
    {[title |-> "Dev", date |-> d] : d \in ProbeDates \cup UnparsedDates}
      \cup extract_job_from_jsonld(JobPostings, PyNone)
      \cup {[title |-> "Dev", salary |-> sal] : sal \in ProbeSalaries}
      \cup { [title |-> "Dev"],
             [title |-> "Dev", posted_date |-> ""],
             [title |-> "Dev", date_posted |-> PyNone],
             [title |-> "Senior Dev"],
             [title |-> "Junior Dev"],
             [title |-> "Dev", experience_level |-> "Mid"] }

ProbePhrases ==
    {"today", "Last 24 hours", "Last 3 days", "Last 7 days", "week",
     "Last 30 days", "month",
     "salary above 8 LPA", "salary above 12 LPA", "salary above 15 LPA",
     "salary above 1500k", "salary above 20 LPA", "compensation over 1 cr",
     "Entry level", "Junior", "Senior"}

ProbeInit ==
    /\ OrchIdle
    /\ ExtraIdle
    /\ fpc = "call"
    /\ fjobs \in {<<job>> : job \in ProbeJobs}
    /\ fplan \in {[filters |-> <<phrase>>] : phrase \in ProbePhrases}
    /\ filtered_jobs = <<>>
    /\ fidx = 0
    /\ fbefore = <<>>
    /\ fret = NoReturn
    /\ fprev = NoReturn
    /\ fcalls = 0

SpecProbe == ProbeInit /\ [][FilterNext]_vars

----------------------------------------------------------------------------
(* JobExtractor.enhance_jobs_with_gpt *)

\* d[k] = v on a dict
SetKey(d, k, v) == [x \in DOMAIN d \cup {k} |-> IF x = k THEN v ELSE d[x]]

\* lines 552-562: the assignments from the parsed reply
GptAssign(job, gpt_json) ==
    LET j1 == SetKey(job, "skills", DictGet(gpt_json, "skills", ""))
        j2 == SetKey(j1, "experience_level",
                     DictGet(gpt_json, "experience_level", ""))
        j3 == SetKey(j2, "job_type", DictGet(gpt_json, "job_type", ""))
        j4 == IF ~Truthy(DictGet(j3, "salary", PyNone))
                    /\ Truthy(DictGet(gpt_json, "salary_range", PyNone))
              THEN SetKey(j3, "salary", gpt_json["salary_range"])
              ELSE j3
    IN  IF Truthy(DictGet(gpt_json, "improved_description", PyNone))
        THEN SetKey(j4, "description", gpt_json["improved_description"])
        ELSE j4

\* what the collaborator can do for one job: the API call raises; the reply
\* holds no {...}; json.loads raises on the {...} it holds; the {...} parses
GptFailures == {"APIError", "NoObject", "Malformed"}

GptObjects ==
    { EmptyDict,
      [skills |-> "Python, SQL", experience_level |-> "Senior",
       job_type |-> "Full-time", salary_range |-> "12-18 LPA",
       improved_description |-> "Builds data pipelines."],
      [skills |-> "Python", salary_range |-> ""],
      [experience_level |-> "Entry", improved_description |-> ""] }

GptReplyOutcomes ==
    {[kind |-> k, gpt_json |-> EmptyDict] : k \in GptFailures}
      \cup {[kind |-> "Object", gpt_json |-> o] : o \in GptObjects}

\* the try block with the three fields given their defaults before the call
TryBody_DefaultsFirst(job, reply) ==
    IF ~Truthy(DictGet(job, "description", PyNone)) THEN job
    ELSE IF reply.kind \in GptFailures
         THEN SetKey(SetKey(SetKey(job, "skills", ""), "experience_level", ""),
                     "job_type", "")
    ELSE GptAssign(job, reply.gpt_json)

\* lines 513-565: the job after the try block.  The call of line 535, the
\* search of line 547 and json.loads of line 549 come before the first
\* assignment, and the except clause of line 564 only logs.
TryBody(job, reply) ==
    IF ~Truthy(DictGet(job, "description", PyNone)) THEN job
    ELSE IF reply.kind \in GptFailures THEN job
    ELSE GptAssign(job, reply.gpt_json)

EnhanceJobs ==
    { [title |-> "Dev", description |-> "Writes code."],
      [title |-> "Dev", description |-> "Writes code.", salary |-> "10 LPA",
       skills |-> "Java"],
      [title |-> "Dev"],
      [title |-> "Dev", description |-> "", job_type |-> "Contract"] }

EnhanceInit ==
    /\ OrchIdle
    /\ FilterIdle
    /\ PagesIdle
    /\ CleanIdle
    /\ RequestIdle
    /\ ExtractIdle
    /\ BrowserIdle
    /\ SampleIdle
    /\ epc = "call"
    /\ openai_client \in BOOLEAN
    /\ ejobs \in BSeq(EnhanceJobs, MaxEnhanceJobs)
    /\ enhanced_jobs = <<>>
    /\ eret = <<>>
    /\ eorig = ejobs
    /\ ereplies = <<>>

\* lines 506-510
EnhanceEnter ==
    /\ epc = "call"
    /\ IF ~openai_client
       THEN /\ eret' = ejobs
            /\ epc' = "done"
       ELSE /\ epc' = "loop"
            /\ UNCHANGED eret
    /\ UNCHANGED <<openai_client, ejobs, enhanced_jobs, eorig, ereplies>>
    /\ UNCHANGED <<fvars, ovars, bvars, svars, dvars, rvars, cvars, pvars>>

\* lines 512-567: one iteration of the loop, on the job after those already
\* appended; the dict of the argument list is the one that is changed.  A
\* job with no description makes no call: one outcome stands for all then.
EnhanceJob ==
    /\ epc = "loop"
    /\ Len(enhanced_jobs) < Len(ejobs)
    /\ \E reply \in GptReplyOutcomes :
          LET i == Len(enhanced_jobs) + 1
              called == Truthy(DictGet(ejobs[i], "description", PyNone))
          IN  /\ called \/ reply.kind = "APIError"
              /\ \E job \in {TryBody(ejobs[i], reply)} :
                    /\ ejobs' = [ejobs EXCEPT ![i] = job]
                    /\ enhanced_jobs' = Append(enhanced_jobs, job)
              /\ ereplies' = Append(ereplies,
                                    IF called THEN reply.kind ELSE "NotCalled")
    /\ UNCHANGED <<epc, openai_client, eret, eorig>>
    /\ UNCHANGED <<fvars, ovars, bvars, svars, dvars, rvars, cvars, pvars>>

\* line 569, and lines 539-541 of BrowserExecutor._enhance_jobs_with_gpt,
\* which returns what it is given
EnhanceReturn ==
    /\ epc = "loop"
    /\ Len(enhanced_jobs) = Len(ejobs)
    /\ eret' = enhanced_jobs
    /\ epc' = "done"
    /\ UNCHANGED <<openai_client, ejobs, enhanced_jobs, eorig, ereplies>>
    /\ UNCHANGED <<fvars, ovars, bvars, svars, dvars, rvars, cvars, pvars>>

EnhanceNext == EnhanceEnter \/ EnhanceJob \/ EnhanceReturn

SpecEnhance == EnhanceInit /\ [][EnhanceNext]_vars

----------------------------------------------------------------------------
(* BrowserExecutor._execute_plan_async, _setup_browser, _close_browser and *)
(* the browser part of execute_plan                                       *)

BrowserPlans == {EmptyDict, [site_details |-> [name |-> "foundit"]]}

\* where _setup_browser can raise: at each of its five awaits, or nowhere
SetupOutcomes ==
    {"start", "launch", "new_context", "add_init_script", "new_page", "ok"}

\* the handle a close() call leaves: closed when it returns; when it raises
\* the call is recorded on a handle that was open
AfterClose(handle, raises) ==
    IF ~raises THEN "closed"
    ELSE IF handle = "open" THEN "close_raised"
    ELSE handle

\* lines 84-91: page, context and browser are closed in turn, each if its
\* attribute is set; the close that raises, fail, ends the method
CloseBrowser(handles, fail) ==
    LET page_called == handles.page # "None"
        page_raised == page_called /\ fail = "page"
        context_called == ~page_raised /\ handles.context # "None"
        context_raised == context_called /\ fail = "context"
        browser_called == ~page_raised /\ ~context_raised
                            /\ handles.browser # "None"
        browser_raised == browser_called /\ fail = "browser"
    IN  [page |-> IF page_called THEN AfterClose(handles.page, page_raised)
                  ELSE handles.page,
         context |-> IF context_called
                     THEN AfterClose(handles.context, context_raised)
                     ELSE handles.context,
         browser |-> IF browser_called
                     THEN AfterClose(handles.browser, browser_raised)
                     ELSE handles.browser,
         raised |-> page_raised \/ context_raised \/ browser_raised]

\* the close() calls that can raise: none, or one on an attribute that is set
CloseFailures(handles) ==
    {"none"} \cup {h \in {"page", "context", "browser"} : handles[h] # "None"}

BrowserInit ==
    /\ OrchIdle
    /\ FilterIdle
    /\ PagesIdle
    /\ CleanIdle
    /\ RequestIdle
    /\ ExtractIdle
    /\ EnhanceIdle
    /\ SampleIdle
    /\ bpc \in {"async", "sync"}
    /\ bplan \in BrowserPlans
    /\ bbrowser = "None"
    /\ bcontext = "None"
    /\ bpage = "None"
    /\ bdriver = "None"
    /\ bruns = 0

\* lines 123-126 and 53-82: _setup_browser assigns browser, context and page
\* as far as it gets; an exception goes to the handler of line 157
AsyncSetup ==
    /\ bpc = "async"
    /\ \E outcome \in SetupOutcomes :
          /\ bbrowser' = IF outcome \in {"start", "launch"} THEN bbrowser
                         ELSE "open"
          /\ bcontext' = IF outcome \in {"start", "launch", "new_context"}
                         THEN bcontext ELSE "open"
          /\ bpage' = IF outcome = "ok" THEN "open" ELSE bpage
          /\ bpc' = IF outcome = "ok" THEN "build_url" ELSE "except"
    /\ UNCHANGED <<bplan, bdriver, bruns>>
    /\ UNCHANGED <<fvars, ovars, evars, svars, dvars, rvars, cvars, pvars>>

\* line 129: _build_search_url is the method of line 708, which takes
\* (plan, site_details); the call with one argument raises TypeError
AsyncBuildUrl ==
    /\ bpc = "build_url"
    /\ bpc' = "except"
    /\ UNCHANGED <<bplan, bbrowser, bcontext, bpage, bdriver, bruns>>
    /\ UNCHANGED <<fvars, ovars, evars, svars, dvars, rvars, cvars, pvars>>

\* lines 157-167: the handler calls _close_browser in a try block whose
\* except clause passes, and the method returns jobs
AsyncExcept ==
    /\ bpc = "except"
    /\ \E fail \in CloseFailures([page |-> bpage, context |-> bcontext,
                                  browser |-> bbrowser]) :
          \E closed \in {CloseBrowser([page |-> bpage, context |-> bcontext,
                                       browser |-> bbrowser], fail)} :
             /\ bpage' = closed.page
             /\ bcontext' = closed.context
             /\ bbrowser' = closed.browser
    /\ bpc' = "done"
    /\ bruns' = bruns + 1
    /\ UNCHANGED <<bplan, bdriver>>
    /\ UNCHANGED <<fvars, ovars, evars, svars, dvars, rvars, cvars, pvars>>

\* lines 567-706 of execute_plan: without site_details it returns at once;
\* with them line 586 raises NameError while driver is None, so the finally
\* clause of line 697 has nothing to quit
SyncExecute ==
    /\ bpc = "sync"
    /\ bdriver' = "None"
    /\ bpc' = "done"
    /\ bruns' = bruns + 1
    /\ UNCHANGED <<bplan, bbrowser, bcontext, bpage>>
    /\ UNCHANGED <<fvars, ovars, evars, svars, dvars, rvars, cvars, pvars>>

\* the executor, which app.py creates once, is called again
ExecuteAgain ==
    /\ bpc = "done"
    /\ bruns < MaxRuns
    /\ bpc' \in {"async", "sync"}
    /\ bplan' \in BrowserPlans
    /\ UNCHANGED <<bbrowser, bcontext, bpage, bdriver, bruns>>
    /\ UNCHANGED <<fvars, ovars, evars, svars, dvars, rvars, cvars, pvars>>

BrowserNext ==
    AsyncSetup \/ AsyncBuildUrl \/ AsyncExcept \/ SyncExecute \/ ExecuteAgain

SpecBrowser == BrowserInit /\ [][BrowserNext]_vars

----------------------------------------------------------------------------
(* sample_jobs.get_sample_jobs called with every kind of argument *)

\* strings that match records, strings that match none, '' and None
SampleTerms == {"", PyNone, "python", "java developer", "quantum chef"}

SampleLocations == {"", PyNone, "Bangalore", "Atlantis"}

SampleSites ==
    {"", PyNone, "any", "ANY", "foundit.in", "https://www.naukri.com",
     "LinkedIn.com"}

\* the default 20, the form's bounds 5 and 50, and 0, 1 and a negative count
SampleCounts == {-1, 0, 1, 5, 20, 50}

SampleInit ==
    /\ OrchIdle
    /\ FilterIdle
    /\ PagesIdle
    /\ CleanIdle
    /\ RequestIdle
    /\ ExtractIdle
    /\ EnhanceIdle
    /\ BrowserIdle
    /\ spc = "call"
    /\ sterm \in SampleTerms
    /\ sloc \in SampleLocations
    /\ ssite \in SampleSites
    /\ scount \in SampleCounts
    /\ sret = NoReturn

\* lines 6-61: the call
SampleCall ==
    /\ spc = "call"
    /\ sret' = IF SampleRaises(sterm, sloc, ssite)
               THEN [raised |-> TRUE, jobs |-> <<>>]
               ELSE [raised |-> FALSE,
                     jobs |-> get_sample_jobs(sterm, sloc, ssite, scount)]
    /\ spc' = "done"
    /\ UNCHANGED <<sterm, sloc, ssite, scount>>
    /\ UNCHANGED <<fvars, ovars, evars, bvars, dvars, rvars, cvars, pvars>>

SpecSample == SampleInit /\ [][SampleCall]_vars

----------------------------------------------------------------------------
(* JobExtractor: clean_text, extract_structured_data and the two extract_jobs
   methods (job_extractor.py) *)

\* the characters the pattern [^\w\s\-\.,] of line 588 keeps
IsKept(c) ==
    \/ LowerChar(c) \in {"a", "b", "c", "d", "e", "f", "g", "h", "i", "j", "k",
                         "l", "m", "n", "o", "p", "q", "r", "s", "t", "u", "v",
                         "w", "x", "y", "z", "_", "-", ".", ","}
    \/ IsDigit(c)
    \/ IsSpace(c)

RECURSIVE RemoveSpecial(_)
\* line 588: re.sub(r'[^\w\s\-\.,]', '', text)
RemoveSpecial(s) ==
    IF Len(s) = 0 THEN ""
    ELSE IF Len(s) = 1 THEN (IF IsKept(s) THEN s ELSE "")
    ELSE RemoveSpecial(SubSeq(s, 1, Len(s) \div 2))
            \o RemoveSpecial(SubSeq(s, Len(s) \div 2 + 1, Len(s)))

\* lines 571-590, the definition of clean_text in force (it replaces the one
\* of lines 453-464): whitespace is collapsed and stripped first, the
\* special characters are removed after
clean_text(text) ==
    IF ~Truthy(text) THEN "" ELSE RemoveSpecial(JoinWords(Words(text)))

\* a parsed document with its "@type"
Typed(type, data) == [x \in {"@type"} |-> type] @@ data

\* the ld+json script blocks: one without text, one that json.loads rejects,
\* a JobPosting, a document of another type, and a list of a JobPosting, a
\* JobPosting with too little to make a record and a document of another type
ScriptBlocks ==
    { [kind |-> "none"],
      [kind |-> "malformed"],
      [kind |-> "dict",
       data |-> Typed("JobPosting",
                      [title |-> "Data Engineer",
                       hiringOrganization |-> [name |-> "Acme"],
                       datePosted |-> "2024-05-01"])],
      [kind |-> "dict", data |-> Typed("Organization", [name |-> "Acme"])],
      [kind |-> "list",
       items |-> << Typed("JobPosting",
                          [title |-> "QA Lead",
                           url |-> "https://acme.example/jobs/7"]),
                    Typed("JobPosting", [title |-> "Intern"]),
                    Typed("WebSite", [url |-> "https://acme.example"]) >>] }

\* lines 244 and 252: isinstance(data, dict) and data.get('@type') == 'JobPosting'
IsJobPosting(data) == DictGet(data, "@type", PyNone) = "JobPosting"

RECURSIVE PostingRecords(_, _)
\* lines 244-255: the records of the documents of one block, in their order
PostingRecords(items, site_name) ==
    IF Len(items) = 0 THEN <<>>
    ELSE (IF IsJobPosting(Head(items)) /\ JsonLdAccepts(JsonLdJob(Head(items), site_name))
          THEN <<JsonLdJob(Head(items), site_name)>>
          ELSE <<>>)
         \o PostingRecords(Tail(items), site_name)

\* lines 237-260, the body of the loop: what one script block adds to jobs;
\* a block without text is passed over (238-239), json.JSONDecodeError is
\* caught inside the loop (257-258)
ScriptRecords(script, site_name) ==
    IF script.kind = "dict" THEN PostingRecords(<<script.data>>, site_name)
    ELSE IF script.kind = "list" THEN PostingRecords(script.items, site_name)
    ELSE <<>>

RECURSIVE extract_structured_data_Abort(_, _)
\* lines 221-266 with the parse error caught outside the loop
extract_structured_data_Abort(scripts, site_name) ==
    IF Len(scripts) = 0 \/ Head(scripts).kind = "malformed" THEN <<>>
    ELSE ScriptRecords(Head(scripts), site_name)
            \o extract_structured_data_Abort(Tail(scripts), site_name)

RECURSIVE extract_structured_data(_, _)
\* lines 221-266
extract_structured_data(scripts, site_name) ==
    IF Len(scripts) = 0 THEN <<>>
    ELSE ScriptRecords(Head(scripts), site_name)
            \o extract_structured_data(Tail(scripts), site_name)

\* the elements the job_card selector matches, given by the text of the
\* elements found in them: a card with padded text, a card with a relative
\* link and special characters, a card without a title, and a card on which
\* a lookup raises
HtmlCards ==
    { [title |-> "  Data   Engineer ", company |-> "Acme"],
      [title |-> "QA Lead (C++)", location |-> "Pune", href |-> "/jobs/7"],
      [company |-> "Acme", location |-> "Pune", salary |-> "10-15 LPA"],
      [raises |-> "select_one"] }

\* str(site)
PyStr(site_name) == IF site_name = PyNone THEN "None" ELSE site_name

\* lines 191-205 (and 394-408) for a site that is not a URL
CardUrl(href, site_name) ==
    IF ~StartsWithAt(href, 1, "/") THEN href
    ELSE IF Contains(Lower(PyStr(site_name)), "foundit") THEN "https://www.foundit.in" \o href
    ELSE IF Contains(Lower(PyStr(site_name)), "indeed") THEN "https://www.indeed.com" \o href
    ELSE IF Contains(Lower(PyStr(site_name)), "naukri") THEN "https://www.naukri.com" \o href
    ELSE href

\* the cleaned text of the element of card found for key k, PyNone without one
CardText(card, k) == IF HasKey(card, k) THEN clean_text(card[k]) ELSE PyNone

\* lines 149-205 (and 354-408): the record built from one card
CardJob(card, site_name) ==
    OptionalKey("title", CardText(card, "title"))
    @@ OptionalKey("company", CardText(card, "company"))
    @@ OptionalKey("location", CardText(card, "location"))
    @@ OptionalKey("date_posted", CardText(card, "date"))
    @@ OptionalKey("description", CardText(card, "description"))
    @@ OptionalKey("salary", CardText(card, "salary"))
    @@ OptionalKey("experience", CardText(card, "experience"))
    @@ OptionalKey("job_url",
          IF HasKey(card, "href") THEN CardUrl(card.href, site_name) ELSE PyNone)

\* lines 208 and 413
CardAccepts(job) ==
    /\ Truthy(DictGet(job, "title", PyNone))
    /\ \/ Truthy(DictGet(job, "company", PyNone))
       \/ Truthy(DictGet(job, "location", PyNone))
       \/ Truthy(DictGet(job, "job_url", PyNone))

\* lines 210 and 415: extract_domain(site) of a bare domain name
CardSource(site_name) == IF Truthy(site_name) THEN site_name ELSE "Unknown"

RECURSIVE CardRecords_Abort(_, _)
\* lines 147-214 with the exception of a card caught outside the loop
CardRecords_Abort(cards, site_name) ==
    IF Len(cards) = 0 \/ HasKey(Head(cards), "raises") THEN <<>>
    ELSE (IF CardAccepts(CardJob(Head(cards), site_name))
          THEN <<CardJob(Head(cards), site_name) @@ [source |-> CardSource(site_name)]>>
          ELSE <<>>)
         \o CardRecords_Abort(Tail(cards), site_name)

RECURSIVE CardRecords(_, _)
\* lines 147-214 (and 352-419): the loop over the cards; the exception of a
\* card is caught inside the loop
CardRecords(cards, site_name) ==
    IF Len(cards) = 0 THEN <<>>
    ELSE (IF ~HasKey(Head(cards), "raises") /\ CardAccepts(CardJob(Head(cards), site_name))
          THEN <<CardJob(Head(cards), site_name) @@ [source |-> CardSource(site_name)]>>
          ELSE <<>>)
         \o CardRecords(Tail(cards), site_name)

ExtractSites == {PyNone, "foundit.in"}

ExtractLimits == {1, 20}

ExtractInit ==
    /\ OrchIdle
    /\ FilterIdle
    /\ PagesIdle
    /\ CleanIdle
    /\ RequestIdle
    /\ EnhanceIdle
    /\ BrowserIdle
    /\ SampleIdle
    /\ dentry \in {"page", "html", "driver"}
    /\ dpc = dentry
    /\ dscripts \in BSeq(ScriptBlocks, MaxScripts)
    /\ dcards \in BSeq(HtmlCards, MaxPageCards)
    /\ dsite \in (IF dentry = "driver" THEN {PyNone} ELSE ExtractSites)
    /\ dmax \in (IF dentry = "driver" THEN {DriverCardLimit} ELSE ExtractLimits)
    /\ dqfail \in (IF dentry = "page" THEN BOOLEAN ELSE {FALSE})
    /\ dselectors \in (IF dentry = "driver" THEN {"none", "nocard", "card"}
                                            ELSE {"card"})
    /\ dstructured = <<>>
    /\ djobs = <<>>
    /\ dtrace = <<>>

\* extract_jobs_from_page, lines 340-426: the cards of the Playwright page
\* first; the document is handed to extract_jobs_from_html when they gave no
\* record (422-425) or when the query raised (427-432)
PageSelectors ==
    /\ dpc = "page"
    /\ dtrace' = Append(dtrace, "selectors")
    /\ \E found \in {IF dqfail THEN <<>> ELSE CardRecords(Take(dcards, dmax), dsite)} :
          IF Len(found) = 0
          THEN /\ dpc' = "html"
               /\ djobs' = djobs
          ELSE /\ dpc' = "done"
               /\ djobs' = found
    /\ UNCHANGED <<dentry, dscripts, dcards, dsite, dmax, dqfail, dselectors,
                   dstructured>>
    /\ UNCHANGED <<fvars, ovars, evars, bvars, svars, rvars, cvars, pvars>>

\* extract_jobs_from_html, lines 128-141: the structured data of the document
HtmlStructured ==
    /\ dpc = "html"
    /\ dtrace' = Append(dtrace, "structured")
    /\ dstructured' = extract_structured_data(dscripts, dsite)
    /\ IF Len(dstructured') > 0
       THEN /\ dpc' = "done"
            /\ djobs' = Take(dstructured', dmax)
       ELSE /\ dpc' = "cards"
            /\ djobs' = djobs
    /\ UNCHANGED <<dentry, dscripts, dcards, dsite, dmax, dqfail, dselectors>>
    /\ UNCHANGED <<fvars, ovars, evars, bvars, svars, rvars, cvars, pvars>>

\* extract_jobs_from_html, lines 143-219: the cards of the document
HtmlSelectors ==
    /\ dpc = "cards"
    /\ dtrace' = Append(dtrace, "selectors")
    /\ djobs' = CardRecords(Take(dcards, dmax), dsite)
    /\ dpc' = "done"
    /\ UNCHANGED <<dentry, dscripts, dcards, dsite, dmax, dqfail, dselectors,
                   dstructured>>
    /\ UNCHANGED <<fvars, ovars, evars, bvars, svars, rvars, cvars, pvars>>

\* the names bound in the module browser_executor (lines 5-31 and the
\* definitions of the file); it imports nothing of selenium
ModuleNames ==
    {"time", "logging", "json", "traceback", "asyncio", "os", "re",
     "async_playwright", "nest_asyncio", "BeautifulSoup", "OpenAI",
     "load_dotenv", "JobExtractor", "logger", "api_key", "openai_client",
     "BrowserExecutor"}

\* reading the global name raises NameError
NameError(name) == name \notin ModuleNames

\* BrowserExecutor._extract_jobs_from_page(driver, plan, site_details),
\* lines 788-858: without selectors it returns [] at once (789-791).  With a
\* job_card selector, line 824 reads WebDriverWait: the NameError is not a
\* TimeoutException, and naming TimeoutException at 828 raises NameError
\* too, so the except of line 1081 takes it and line 1085 returns jobs, still
\* empty.  Without a job_card selector every alternative selector reads By
\* at line 851, inside a try that goes on to the next one (854-856).
DriverSelectors ==
    /\ dpc = "driver"
    /\ IF dselectors = "none"
       THEN /\ dpc' = "done"
            /\ dtrace' = dtrace
       ELSE /\ dtrace' = Append(dtrace, "selectors")
            /\ dpc' = IF dselectors = "card" /\ NameError("WebDriverWait") THEN "done"
                      ELSE IF NameError("By") THEN "content"
                      ELSE "cards_found"
    /\ djobs' = <<>>
    /\ UNCHANGED <<dentry, dscripts, dcards, dsite, dmax, dqfail, dselectors,
                   dstructured>>
    /\ UNCHANGED <<fvars, ovars, evars, bvars, svars, rvars, cvars, pvars>>

\* lines 861-883, level 2: the elements that read like a job listing; line
\* 865 reads By and the NameError is caught at line 882
DriverHeuristic ==
    /\ dpc = "content"
    /\ dtrace' = Append(dtrace, "heuristic")
    /\ dpc' = IF NameError("By") THEN "ldjson" ELSE "cards_found"
    /\ UNCHANGED <<dentry, dscripts, dcards, dsite, dmax, dqfail, dselectors,
                   dstructured, djobs>>
    /\ UNCHANGED <<fvars, ovars, evars, bvars, svars, rvars, cvars, pvars>>

\* lines 886-908, level 3: the JobPosting blocks of the page; line 890 reads
\* By before any block is read and the NameError is caught at line 907
DriverStructured ==
    /\ dpc = "ldjson"
    /\ NameError("By")
    /\ dtrace' = Append(dtrace, "structured")
    /\ dpc' = "nocards"
    /\ UNCHANGED <<dentry, dscripts, dcards, dsite, dmax, dqfail, dselectors,
                   dstructured, djobs>>
    /\ UNCHANGED <<fvars, ovars, evars, bvars, svars, rvars, cvars, pvars>>

\* lines 911-920: job_cards is empty and the function returns a new empty
\* list, whatever jobs holds
DriverReturn ==
    /\ dpc = "nocards"
    /\ djobs' = <<>>
    /\ dpc' = "done"
    /\ UNCHANGED <<dentry, dscripts, dcards, dsite, dmax, dqfail, dselectors,
                   dstructured, dtrace>>
    /\ UNCHANGED <<fvars, ovars, evars, bvars, svars, rvars, cvars, pvars>>

ExtractNext ==
    \/ PageSelectors \/ HtmlStructured \/ HtmlSelectors
    \/ DriverSelectors \/ DriverHeuristic \/ DriverStructured \/ DriverReturn

SpecExtract == ExtractInit /\ [][ExtractNext]_vars

----------------------------------------------------------------------------
(* _make_request (ultra_light_scraper.py 96-130, linkedin_scraper.py 70-104),
   one requests.get at a time *)

\* what one requests.get does: a response with status 200, 429 or 503, a
\* requests.exceptions.RequestException, or an exception of another class
GetOutcomes == {"200", "429", "503", "RequestException", "ValueError"}

\* self.max_retries: ultra_light_scraper.py 34, linkedin_scraper.py 41
DefaultRetries(scraper) ==
    IF scraper = "ultra" THEN UltraMaxRetries ELSE LinkedInMaxRetries

\* max_retries after lines 98-99 (72-73): the default of the class, or the
\* argument
RetryArguments(scraper) == {DefaultRetries(scraper), -1, 0, 1}

\* linkedin_scraper.py 76 with one more turn of the loop
LinkedInLoops_OneMore(retries, max_retries) == retries <= max_retries + 1

\* linkedin_scraper.py 76: while retries <= max_retries
LinkedInLoops(retries, max_retries) == retries <= max_retries

\* ultra_light_scraper.py 103: attempt is in range(max_retries + 1)
UltraLoops(attempt, max_retries) == attempt < max_retries + 1

RequestInit ==
    /\ OrchIdle
    /\ FilterIdle
    /\ PagesIdle
    /\ CleanIdle
    /\ EnhanceIdle
    /\ BrowserIdle
    /\ SampleIdle
    /\ ExtractIdle
    /\ rpc = "loop"
    /\ rscraper \in {"ultra", "linkedin"}
    /\ rmax \in RetryArguments(rscraper)
    /\ rattempts = 0
    /\ rlog = <<>>
    /\ rret = "pending"

\* ultra_light_scraper.py 103-130, one turn of the loop: status 200 returns
\* the response (121-122); another status (123-124) and a RequestException
\* (125-126) go on to the test of the last attempt (129-130); an exception
\* of another class leaves the function
UltraAttempt ==
    /\ rpc = "loop"
    /\ rscraper = "ultra"
    /\ UltraLoops(rattempts, rmax)
    /\ \E outcome \in GetOutcomes :
          /\ rlog' = Append(rlog, outcome)
          /\ rret' = IF outcome = "200" THEN "response"
                     ELSE IF outcome = "ValueError" THEN "raised"
                     ELSE IF rattempts = rmax THEN "None"
                     ELSE "pending"
    /\ rattempts' = rattempts + 1
    /\ rpc' = IF rret' = "pending" THEN "loop" ELSE "done"
    /\ UNCHANGED <<rscraper, rmax>>
    /\ UNCHANGED <<fvars, ovars, evars, bvars, svars, dvars, cvars, pvars>>

\* linkedin_scraper.py 76-101, one turn of the loop: status 200 returns the
\* response (88-89); any other status and any exception (96) add one to
\* retries
LinkedInAttempt ==
    /\ rpc = "loop"
    /\ rscraper = "linkedin"
    /\ LinkedInLoops(rattempts, rmax)
    /\ \E outcome \in GetOutcomes :
          /\ rlog' = Append(rlog, outcome)
          /\ rret' = IF outcome = "200" THEN "response" ELSE "pending"
    /\ rattempts' = rattempts + 1
    /\ rpc' = IF rret' = "pending" THEN "loop" ELSE "done"
    /\ UNCHANGED <<rscraper, rmax>>
    /\ UNCHANGED <<fvars, ovars, evars, bvars, svars, dvars, cvars, pvars>>

\* the loop ends without a response: linkedin_scraper.py 103-104 returns
\* None; ultra_light_scraper.py reaches the end of the function, for a
\* max_retries below 0
RequestExhausted ==
    /\ rpc = "loop"
    /\ IF rscraper = "ultra" THEN ~UltraLoops(rattempts, rmax)
                             ELSE ~LinkedInLoops(rattempts, rmax)
    /\ rret' = "None"
    /\ rpc' = "done"
    /\ UNCHANGED <<rscraper, rmax, rattempts, rlog>>
    /\ UNCHANGED <<fvars, ovars, evars, bvars, svars, dvars, cvars, pvars>>

RequestNext == UltraAttempt \/ LinkedInAttempt \/ RequestExhausted

SpecRequest == RequestInit /\ [][RequestNext]_vars

----------------------------------------------------------------------------
(* JobExtractor.clean_text called on its own, once and again on its result *)

\* the characters of the texts: a word character, a character the pattern
\* of line 588 keeps, two whitespace characters and a special character
TextChars == {"a", "-", " ", "\n", "@"}

RECURSIVE Texts(_)
\* the texts of up to n characters
Texts(n) ==
    IF n = 0 THEN {""}
    ELSE Texts(n - 1) \cup {t \o c : t \in Texts(n - 1), c \in TextChars}

CleanInit ==
    /\ OrchIdle
    /\ FilterIdle
    /\ PagesIdle
    /\ EnhanceIdle
    /\ BrowserIdle
    /\ SampleIdle
    /\ ExtractIdle
    /\ RequestIdle
    /\ cpc = "call"
    /\ ctext \in Texts(MaxTextLen) \cup {PyNone}
    /\ cout = ""
    /\ cagain = ""

\* clean_text(text)
CleanOnce ==
    /\ cpc = "call"
    /\ cout' = clean_text(ctext)
    /\ cpc' = "once"
    /\ UNCHANGED <<ctext, cagain>>
    /\ UNCHANGED <<fvars, ovars, evars, bvars, svars, dvars, rvars, pvars>>

\* clean_text of the text the first call returned
CleanTwice ==
    /\ cpc = "once"
    /\ cagain' = clean_text(cout)
    /\ cpc' = "twice"
    /\ UNCHANGED <<ctext, cout>>
    /\ UNCHANGED <<fvars, ovars, evars, bvars, svars, dvars, rvars, pvars>>

CleanNext == CleanOnce \/ CleanTwice

SpecClean == CleanInit /\ [][CleanNext]_vars

----------------------------------------------------------------------------
(* LinkedInScraper.scrape_linkedin_jobs, lines 315-379: the pagination loop,
   one request at a time *)

\* the records jobs can hold when line 316 is reached: the record of a card
\* (lines 256-265) and the record of a JobPosting block (199-209)
FirstPageRecords ==
    { LinkedInCardJob([title |-> "Python  Developer", company |-> "TCS",
                       location |-> "Pune"]),
      LinkedInStructuredJob([type |-> "JobPosting", title |-> "Data Engineer",
                             company |-> "Acme"]) }

\* line 327: what _make_request returns, a response or None
PageResponses ==
    {LinkedInMakeRequest(first_ok) : first_ok \in 1..(LinkedInMaxRetries + 2)}

\* lines 333-334 and 347-356: the texts read from the cards of a page, one
\* record for each li element
PageRecordLists == {MapSeq(cards, LinkedInCardJob) : cards \in BSeq(PageCards, MaxCards)}

\* line 320 with a cap that is itself requested
PagesLoops_Inclusive(n, limit, start_val) ==
    n < limit /\ start_val <= PaginationCap

\* line 320: while len(jobs) < max_jobs and start_val < 1000
PagesLoops(n, limit, start_val) == n < limit /\ start_val < PaginationCap

PagesInit ==
    /\ OrchIdle
    /\ FilterIdle
    /\ EnhanceIdle
    /\ BrowserIdle
    /\ SampleIdle
    /\ ExtractIdle
    /\ RequestIdle
    /\ CleanIdle
    /\ ppc = "enter"
    /\ pjobs \in BSeq(FirstPageRecords, MaxJobs)
    /\ pmax \in 1..MaxJobs
    /\ pstart = 0
    /\ pfirst = Len(pjobs)
    /\ prequests = 0
    /\ pbroke = FALSE
    /\ pret = <<>>

\* lines 316-319: the loop is entered, with start_val 25, when jobs is
\* neither empty nor full
PagesEnter ==
    /\ ppc = "enter"
    /\ IF Len(pjobs) < pmax /\ Len(pjobs) > 0
       THEN /\ ppc' = "loop"
            /\ pstart' = PaginationStep
       ELSE /\ ppc' = "return"
            /\ pstart' = pstart
    /\ UNCHANGED <<pjobs, pmax, pfirst, prequests, pbroke, pret>>
    /\ UNCHANGED <<fvars, ovars, evars, bvars, svars, dvars, rvars, cvars>>

\* lines 320-373, one turn of the loop: the request of the page at
\* start_val; a failed request (329-331) and a page without cards (336-338)
\* leave the loop, the cards of any other page are read until jobs is full
\* (342-370) and start_val grows by 25 (373)
PagesRequest ==
    /\ ppc = "loop"
    /\ PagesLoops(Len(pjobs), pmax, pstart)
    /\ prequests' = prequests + 1
    /\ \E response \in PageResponses, found \in PageRecordLists :
          IF ~response \/ Len(found) = 0
          THEN /\ pbroke' = TRUE
               /\ ppc' = "return"
               /\ UNCHANGED <<pjobs, pstart>>
          ELSE /\ pjobs' = LinkedInPageCards(pjobs, found, pmax)
               /\ pstart' = pstart + PaginationStep
               /\ UNCHANGED <<pbroke, ppc>>
    /\ UNCHANGED <<pmax, pfirst, pret>>
    /\ UNCHANGED <<fvars, ovars, evars, bvars, svars, dvars, rvars, cvars>>

\* line 320: the test of the loop fails
PagesExit ==
    /\ ppc = "loop"
    /\ ~PagesLoops(Len(pjobs), pmax, pstart)
    /\ ppc' = "return"
    /\ UNCHANGED <<pjobs, pmax, pstart, pfirst, prequests, pbroke, pret>>
    /\ UNCHANGED <<fvars, ovars, evars, bvars, svars, dvars, rvars, cvars>>

\* line 379: return jobs[:max_jobs]
PagesReturn ==
    /\ ppc = "return"
    /\ pret' = Take(pjobs, pmax)
    /\ ppc' = "done"
    /\ UNCHANGED <<pjobs, pmax, pstart, pfirst, prequests, pbroke>>
    /\ UNCHANGED <<fvars, ovars, evars, bvars, svars, dvars, rvars, cvars>>

PagesNext == PagesEnter \/ PagesRequest \/ PagesExit \/ PagesReturn

SpecPages == PagesInit /\ [][PagesNext]_vars

\* _make_request returns after at most max_retries + 1 requests with a
\* timeout, so a step of the loop that can be taken is taken
SpecPagesFair == SpecPages /\ WF_vars(PagesNext)

----------------------------------------------------------------------------
(* _apply_filters_to_jobs called with two phrases, then with the same jobs
   and the two phrases in the other order *)

\* the list in the other order
Reverse(xs) == [i \in 1..Len(xs) |-> xs[Len(xs) + 1 - i]]

OrderInit ==
    /\ OrchIdle
    /\ ExtraIdle
    /\ fpc = "call"
    /\ fjobs \in BSeq(FilterJobs, MaxFilterJobs)
    /\ fplan \in {[filters |-> <<p, q>>] : p, q \in FilterPhrases}
    /\ filtered_jobs = <<>>
    /\ fidx = 0
    /\ fbefore = <<>>
    /\ fret = NoReturn
    /\ fprev = NoReturn
    /\ fcalls = 0

\* the caller calls the function again with the same jobs and the phrases
\* of the plan in the other order
FilterReorder ==
    /\ fpc = "done"
    /\ fcalls = 1
    /\ HasKey(fplan, "filters")
    /\ fplan' = [fplan EXCEPT !.filters = Reverse(fplan.filters)]
    /\ fprev' = fret
    /\ fpc' = "call"
    /\ filtered_jobs' = <<>>
    /\ fidx' = 0
    /\ fbefore' = <<>>
    /\ fret' = NoReturn
    /\ UNCHANGED <<fjobs, fcalls>>
    /\ UNCHANGED <<ovars, xvars>>

OrderNext == FilterEnter \/ FilterIterate \/ FilterReturn \/ FilterReorder

SpecOrder == OrderInit /\ [][OrderNext]_vars

----------------------------------------------------------------------------
(* Properties of the four filter predicates, one record and one phrase *)

\* the first call has ended; ProbeJob and ProbePhrase are what it was given
ProbeDone == fpc = "done" /\ fcalls = 1 /\ Len(fjobs) = 1 /\ Len(PlanFilters(fplan)) = 1

ProbeJob == fjobs[1]

ProbePhrase == PlanFilters(fplan)[1]

ProbeKept == ~fret.raised /\ fret.jobs = fjobs

ProbeDropped == ~fret.raised /\ fret.jobs = <<>>

\* C11: a call of _apply_filters_to_jobs never raises: whatever a record's
\* fields hold, the call ends by returning a list.
C11_NeverRaises == fpc = "done" => ~fret.raised

\* the phrase selects the recency branch
RecencyPhrase(phrase) ==
    AnyTermIn(Lower(phrase), <<"last 24 hours", "today", "last 3 days",
                               "last 7 days", "week", "last 30 days", "month">>)

\* a record with no date field, with an empty one, or with a date text that
\* is none of the relative wordings
Undated(job) ==
    \/ ~(\E k \in {"date_posted", "posted_date", "date"} : HasKey(job, k))
    \/ \E k \in {"date_posted", "posted_date", "date"} :
          HasKey(job, k) /\ job[k] \in {"", PyNone} \cup UnparsedDates

\* C12: a record with no date field, or whose date text cannot be parsed,
\* passes every recency phrase, whatever the hours the phrase stands for.
C12_UndatedPasses ==
    (ProbeDone /\ RecencyPhrase(ProbePhrase) /\ Undated(ProbeJob)) => ProbeKept

\* the 24-hour phrase was applied to a record dated "2024-05-01", and the
\* record is in the returned list
C12_Witness ==
    /\ ProbeDone
    /\ ProbePhrase = "Last 24 hours"
    /\ HasKey(ProbeJob, "date")
    /\ ProbeJob.date = "2024-05-01"
    /\ ProbeKept

\* the hour thresholds of the recency phrases, as the specification lists them
ThresholdOf ==
    [p \in {"today", "Last 24 hours", "Last 3 days", "Last 7 days", "week",
            "Last 30 days", "month"} |->
        CASE p \in {"today", "Last 24 hours"} -> 24
          [] p = "Last 3 days" -> 72
          [] p \in {"Last 7 days", "week"} -> 168
          [] p \in {"Last 30 days", "month"} -> 720]

\* the age in hours of the relative date texts, counted by hand
AgeOf ==
    [d \in ProbeDates |->
        CASE d = "5 hours ago" -> 5
          [] d = "25 hours ago" -> 25
          [] d = "1 day ago" -> 24
          [] d = "3 days ago" -> 72
          [] d = "4 days ago" -> 96
          [] d = "1 week ago" -> 168
          [] d = "2 weeks ago" -> 336
          [] d = "1 month ago" -> 720
          [] d = "2 months ago" -> 1440]

\* C13: the recency phrases stand for 24, 72, 168 and 720 hours, and a
\* record dated "<n> <unit> ago" passes exactly when n hours, n x 24 hours
\* for days, n x 168 for weeks, n x 720 for months is at most that threshold.
C13_Thresholds ==
    (ProbeDone /\ ProbePhrase \in DOMAIN ThresholdOf
        /\ HasKey(ProbeJob, "date") /\ ProbeJob.date \in ProbeDates)
      => /\ ~fret.raised
         /\ ProbeKept <=> AgeOf[ProbeJob.date] <= ThresholdOf[ProbePhrase]

\* the 7-day phrase kept the record dated one week ago
C13_Witness ==
    /\ ProbeDone
    /\ ProbePhrase = "Last 7 days"
    /\ HasKey(ProbeJob, "date")
    /\ ProbeJob.date = "1 week ago"
    /\ ProbeKept

\* the 7-day phrase dropped the record dated two weeks ago
C13_WitnessDropped ==
    /\ ProbeDone
    /\ ProbePhrase = "Last 7 days"
    /\ HasKey(ProbeJob, "date")
    /\ ProbeJob.date = "2 weeks ago"
    /\ ProbeDropped

\* the floor of each salary phrase in thousands of rupees, counted by hand:
\* a lakh is 100 thousand and a crore 100 lakhs
FloorOf ==
    [p \in {"salary above 8 LPA", "salary above 12 LPA", "salary above 15 LPA",
            "salary above 1500k", "salary above 20 LPA",
            "compensation over 1 cr"} |->
        CASE p = "salary above 8 LPA" -> 800
          [] p = "salary above 12 LPA" -> 1200
          [] p \in {"salary above 15 LPA", "salary above 1500k"} -> 1500
          [] p = "salary above 20 LPA" -> 2000
          [] p = "compensation over 1 cr" -> 10000]

\* the amount of each one-number salary text in thousands of rupees
AmountOf ==
    [t \in {"900k", "1500k", "14.5 LPA", "1 cr", "16 lakhs"} |->
        CASE t = "900k" -> 900
          [] t = "1500k" -> 1500
          [] t = "14.5 LPA" -> 1450
          [] t = "1 cr" -> 10000
          [] t = "16 lakhs" -> 1600]

ProbeSalary == IF HasKey(ProbeJob, "salary") THEN ProbeJob.salary ELSE PyNone

\* C14: amounts are compared in lakhs, k divided by 100 and cr multiplied by
\* 100, on the phrase and on the record alike: a one-number salary is kept
\* exactly when its amount is at least the floor, so that "15 LPA" and
\* "1500k" are the same floor.
C14_Normalized ==
    (ProbeDone /\ ProbePhrase \in DOMAIN FloorOf
        /\ ProbeSalary \in DOMAIN AmountOf)
      => /\ ~fret.raised
         /\ ProbeKept <=> AmountOf[ProbeSalary] >= FloorOf[ProbePhrase]

\* the floor written "1500k" kept the record that pays "1500k"
C14_Witness ==
    /\ ProbeDone
    /\ ProbePhrase = "salary above 1500k"
    /\ ProbeSalary = "1500k"
    /\ ProbeKept

\* the lower bound of each range text in thousands of rupees
LowerBoundOf ==
    [t \in {"10-15 LPA", "INR10-INR15 LPA"} |-> 1000]

\* C15: a record whose salary text is a range is kept exactly when the
\* lower bound of the range is at least the floor; a record with no salary
\* field or with a salary text that holds no amount is kept.
C15_LowerBound ==
    (ProbeDone /\ ProbePhrase \in DOMAIN FloorOf)
      => /\ ProbeSalary \in DOMAIN LowerBoundOf
              => (ProbeKept <=> LowerBoundOf[ProbeSalary] >= FloorOf[ProbePhrase])
         /\ ProbeSalary \in {PyNone, "Negotiable"} => ProbeKept

\* the JobPosting documents whose baseSalary value has both bounds and that
\* make a record
RangePostings ==
    {data \in JobPostings :
        /\ HasKey(data, "baseSalary")
        /\ HasKey(data.baseSalary.value, "minValue")
        /\ HasKey(data.baseSalary.value, "maxValue")
        /\ JsonLdAccepts(JsonLdJob(data, PyNone))}

\* C16: the record made from a JobPosting with minValue and maxValue has a
\* salary text that holds both numbers and the unit; with 10, 15 and LPA it
\* passes "salary above 8 LPA" and fails "salary above 20 LPA".
C16_RangeSalary ==
    /\ \A data \in RangePostings :
          LET job == JsonLdJob(data, PyNone)
              value == data.baseSalary.value
          IN  /\ HasKey(job, "salary")
              /\ Contains(job.salary, ToString(value.minValue))
              /\ Contains(job.salary, ToString(value.maxValue))
              /\ Contains(job.salary, value.unitText)
    /\ (ProbeDone /\ ProbeJob \in extract_job_from_jsonld(RangePostings, PyNone))
         => /\ ProbePhrase = "salary above 8 LPA" => ProbeKept
            /\ ProbePhrase = "salary above 20 LPA" => ProbeDropped

\* the record made from the posting with 10, 15 and LPA has the salary
\* "10-15 LPA", and "salary above 20 LPA" dropped it
C16_Witness ==
    /\ ProbeDone
    /\ ProbeJob \in extract_job_from_jsonld(RangePostings, PyNone)
    /\ ProbeSalary = "10-15 LPA"
    /\ ProbePhrase = "salary above 20 LPA"
    /\ ProbeDropped

\* the level each experience phrase asks for
LevelOf ==
    [p \in {"Entry level", "Junior", "Senior"} |->
        IF p = "Senior" THEN "senior" ELSE "entry"]

\* the levels whose keywords a record carries
LevelsIn(job) ==
    {"senior" : x \in {1} \cap (IF Contains(Lower(job.title), "senior") THEN {1} ELSE {})}
      \cup {"entry" : x \in {1} \cap (IF Contains(Lower(job.title), "junior") THEN {1} ELSE {})}
      \cup {"mid" : x \in {1} \cap (IF DictGet(job, "experience_level", "") = "Mid"
                                    THEN {1} ELSE {})}

\* the records with no date and no salary, which the experience phrases
\* tell apart by title and experience_level only
LevelRecords ==
    { [title |-> "Dev"], [title |-> "Senior Dev"], [title |-> "Junior Dev"],
      [title |-> "Dev", experience_level |-> "Mid"] }

\* C17: an experience phrase for a level keeps a record that carries a
\* keyword of that level, keeps a record that carries no keyword of any
\* level, and removes a record whose keywords all belong to other levels.
C17_OtherLevelRemoved ==
    (ProbeDone /\ ProbePhrase \in DOMAIN LevelOf /\ ProbeJob \in LevelRecords)
      => IF LevelsIn(ProbeJob) = {} \/ LevelOf[ProbePhrase] \in LevelsIn(ProbeJob)
         THEN ProbeKept
         ELSE ProbeDropped

----------------------------------------------------------------------------
(* Properties of the enhancement *)

\* C18: a job for which the collaborator failed (the API call raised, the
\* reply held no JSON object, or the JSON was malformed) is, in the argument
\* list, in enhanced_jobs and in the returned list, the record it was before
\* the call; a record is never left with part of the assignments: it is
\* either as it was or holds all three of skills, experience_level, job_type.
C18_AllOrNothing ==
    /\ \A i \in 1..Len(ereplies) :
          /\ ereplies[i] \in GptFailures
                => /\ ejobs[i] = eorig[i]
                   /\ enhanced_jobs[i] = eorig[i]
          /\ \/ ejobs[i] = eorig[i]
             \/ {"skills", "experience_level", "job_type"} \subseteq DOMAIN ejobs[i]
    /\ epc = "done"
          => /\ Len(eret) = Len(eorig)
             /\ \A i \in 1..Len(ereplies) :
                   ereplies[i] \in GptFailures => eret[i] = eorig[i]
             /\ ~openai_client => eret = eorig

\* a call on two jobs returned: the reply for the first was malformed JSON
\* and the record is as it was, the reply for the second parsed and the
\* record has changed
C18_Witness ==
    /\ epc = "done"
    /\ openai_client
    /\ ereplies = <<"Malformed", "Object">>
    /\ eret[1] = eorig[1]
    /\ eret[2] # eorig[2]

----------------------------------------------------------------------------
(* Properties of the browser sessions *)

\* C19: when a method of the browser tier returns, nothing it opened is
\* still open and unattended: page, context, browser and driver are each
\* unset, closed, or were given a close() call (which raised).
C19_ClosedAtReturn ==
    bpc = "done"
      => \A handle \in {bpage, bcontext, bbrowser, bdriver} :
            handle \in {"None", "closed", "close_raised"}

----------------------------------------------------------------------------
(* Properties of get_sample_jobs *)

C21_SiteOnly ==
    (spc = "done" /\ ~sret.raised /\ Truthy(ssite) /\ Lower(ssite) # "any")
      => \A i \in 1..Len(sret.jobs) :
            Contains(Lower(ssite), Lower(sret.jobs[i].source))


----------------------------------------------------------------------------
(* Properties of the extraction *)

\* C22: the strategies run in a fixed order of priority: the structured data
\* is read first, and the selectors run only after the structured data gave
\* no record.
C22_StructuredFirst ==
    dtrace # <<>> =>
        /\ dtrace[1] = "structured"
        /\ \A i \in 1..Len(dtrace) :
              dtrace[i] = "selectors" =>
                  \E k \in 1..(i - 1) : dtrace[k] = "structured"

\* the strategy named s has run
HasRun(s) == \E i \in 1..Len(dtrace) : dtrace[i] = s

\* the documents of a script block that json.loads accepts
BlockDocs(script) ==
    IF script.kind = "dict" THEN <<script.data>>
    ELSE IF script.kind = "list" THEN script.items
    ELSE <<>>

RECURSIVE AllDocs(_)
\* the documents of the script blocks, in document order
AllDocs(scripts) ==
    IF Len(scripts) = 0 THEN <<>>
    ELSE BlockDocs(Head(scripts)) \o AllDocs(Tail(scripts))

\* the JobPosting documents that make a record, in document order
ValidPostings ==
    SelectSeq(AllDocs(dscripts),
              LAMBDA d : DictGet(d, "@type", PyNone) = "JobPosting"
                         /\ JsonLdAccepts(JsonLdJob(d, dsite)))

\* extract_structured_data has returned
StructuredRead == dentry \in {"page", "html"} /\ HasRun("structured")

\* C23: a block that does not parse, or that is no JobPosting, is passed
\* over and nothing else: extract_structured_data returns the record of
\* every valid JobPosting of the document, in document order.
C23_BlockSkipped ==
    StructuredRead =>
        /\ Len(dstructured) = Len(ValidPostings)
        /\ \A i \in 1..Len(dstructured) :
              dstructured[i] = JsonLdJob(ValidPostings[i], dsite)

\* a block that does not parse comes first and the JobPosting after it is
\* returned
C23_Witness ==
    /\ StructuredRead
    /\ Len(dscripts) = 2
    /\ dscripts[1].kind = "malformed"
    /\ dscripts[2].kind = "dict"
    /\ Len(dstructured) = 1
    /\ dstructured[1].title = "Data Engineer"

\* the cards among the first max_jobs that raise nothing and make a record
UsableCards ==
    SelectSeq(Take(dcards, dmax),
              LAMBDA c : "raises" \notin DOMAIN c
                         /\ CardAccepts(CardJob(c, dsite)))

\* the list returned is the one the loop over the cards made
FromCards ==
    /\ dpc = "done"
    /\ dentry \in {"page", "html"}
    /\ dtrace[Len(dtrace)] = "selectors"

\* C24: an exception on one card discards that card only: the records of
\* the cards before it are kept and the cards after it are processed.
C24_CardSkipped ==
    FromCards =>
        /\ Len(djobs) = Len(UsableCards)
        /\ \A i \in 1..Len(djobs) :
              /\ djobs[i].title = clean_text(UsableCards[i].title)
              /\ djobs[i].source = (IF dsite = PyNone THEN "Unknown" ELSE dsite)

\* the first card raises and the record of the second card is returned
C24_Witness ==
    /\ FromCards
    /\ dmax = 20
    /\ Len(dcards) = 2
    /\ "raises" \in DOMAIN dcards[1]
    /\ Len(djobs) = 1
    /\ djobs[1].title = "Data Engineer"

----------------------------------------------------------------------------
(* Properties of _make_request *)

\* every requests.get so far ended in a network error or a status other
\* than 200
AllFailed ==
    \A i \in 1..Len(rlog) : rlog[i] \in {"429", "503", "RequestException"}

\* C25: _make_request makes at most max_retries + 1 requests, returns the
\* first response with status 200 and makes no request after it, and
\* returns None, raising nothing, when every request failed with a network
\* error or a status other than 200.
C25_BoundedRetries ==
    /\ rmax >= -1 => Len(rlog) <= rmax + 1
    /\ \A i \in 1..Len(rlog) :
          rlog[i] = "200" => (i = Len(rlog) /\ rpc = "done" /\ rret = "response")
    /\ (rpc = "done" /\ AllFailed) => rret = "None"

\* the three requests of the default of UltraLightScraper all failed
C25_Witness ==
    /\ rpc = "done"
    /\ rscraper = "ultra"
    /\ rlog = <<"503", "RequestException", "429">>
    /\ rret = "None"

\* C26: in the page extraction of the browser tier, when no card is found
\* and the page holds JobPosting blocks, the list returned holds the records
\* of these blocks.
C26_StructuredReturned ==
    (dentry = "driver" /\ dpc = "done" /\ dselectors # "none" /\ Len(dcards) = 0)
      => \A k \in 1..Len(dscripts) :
            (dscripts[k].kind = "dict" /\ IsJobPosting(dscripts[k].data))
              => \E i \in 1..Len(djobs) : djobs[i].title = dscripts[k].data.title

----------------------------------------------------------------------------
(* Properties of clean_text *)

\* C27: the text clean_text returns has no whitespace at its start or end
\* and no two whitespace characters in a row, and cleaning it again gives
\* the same text.
C27_CleanIdempotent ==
    /\ cpc \in {"once", "twice"} =>
          /\ ~IsSpace(Char(cout, 1))
          /\ ~IsSpace(Char(cout, Len(cout)))
          /\ \A i \in 1..(Len(cout) - 1) :
                ~(IsSpace(Char(cout, i)) /\ IsSpace(Char(cout, i + 1)))
    /\ cpc = "twice" => cagain = cout

----------------------------------------------------------------------------
(* Properties of the pagination loop *)

\* the number of start offsets from 25 to 975 in steps of 25
PageRequestCap == 39

\* what holds of the loop at every moment
PaginationBounded ==
    /\ prequests <= PageRequestCap
    /\ prequests > 0 => (pfirst >= 1 /\ pfirst < pmax)
    /\ ppc = "loop" =>
          /\ pstart = 25 * (prequests + 1)
          /\ ~pbroke
    /\ prequests > 0 => Len(pjobs) <= pmax
    /\ ppc = "done" => Len(pret) <= pmax

\* C28: the pagination loop runs only when the first page gave at least one
\* record and fewer than max_jobs; it makes at most 39 requests, at the
\* start offsets 25 to 975, makes none after a failed or an empty page, adds
\* no record beyond max_jobs, and it ends.
C28_Pagination == []PaginationBounded /\ <>(ppc = "done")

\* the loop made all 39 requests and returned
C28_Witness ==
    /\ ppc = "done"
    /\ prequests = PageRequestCap
    /\ pstart = PaginationCap
    /\ ~pbroke

----------------------------------------------------------------------------
(* Properties of the order of the phrases *)

\* C29: the result of _apply_filters_to_jobs does not depend on the order of
\* the phrases: the call with the phrases in the other order ends as the
\* first call did.
C29_OrderIndependent ==
    (fpc = "done" /\ fcalls = 2) => fret = fprev

----------------------------------------------------------------------------
(* Properties of the filters of get_sample_jobs *)

====
